---- MODULE Spec2Model ----
(***************************************************************************)
(* Verification model of sound-of-knowledge.                               *)
(*                                                                         *)
(*   Spec          the zustand store of src/lib/store.ts: the bounded      *)
(*                 event queue, the history ring, the total counter, the   *)
(*                 aggregate audio levels and the UI flags.                *)
(*   SpecClassify  the pure function classifyMagnitude of                  *)
(*                 src/lib/classify.ts applied to one input.               *)
(*   SpecNormalize the pure function normalizeEvent of                     *)
(*                 src/lib/classify.ts applied to one raw record.          *)
(*   SpecEngine    the life of one audio engine of src/lib/audio.ts: init  *)
(*                 with the outcomes of Tone.start(), dispose, the drone   *)
(*                 timer, and triggers.                                    *)
(*   SpecAudio     the registry of audio engines: getAudioEngine, Scene's  *)
(*                 initAudio, dispose.                                     *)
(*   SpecSched     the trigger scheduler of a running engine under an      *)
(*                 advancing audio clock.                                  *)
(*   SpecParticles the particle pool of src/components/ParticleSystem.tsx: *)
(*                 spawn and the frame callback.                           *)
(*   SpecFrame     the render loop: the frame callbacks of                 *)
(*                 src/components/Scene.tsx and of the particle system;    *)
(*                 SpecFrameFair adds that frames keep coming.             *)
(*   SpecPipe      the event stream: the proxy of                          *)
(*                 src/app/api/wiki-stream/route.ts, the EventSource       *)
(*                 handlers of src/components/Scene.tsx and the store's    *)
(*                 enqueue.                                                *)
(*   SpecDrain     the drain of the queue by the frame callback of         *)
(*                 InnerScene when more events arrive than the queue       *)
(*                 holds, before and after the audio is started.           *)
(*   SpecClient    the SSE effect of src/components/Scene.tsx: the         *)
(*                 EventSources it creates, its retry timers and its       *)
(*                 cleanup.                                                *)
(*   SpecRelease   the particle pool under continuing frames, with the     *)
(*                 events and the one other value that reach spawn.        *)
(*   SpecMotes     the pool with ambient motes of the version of the       *)
(*                 particle system in src/unnamed/part_011.                *)
(*                                                                         *)
(* The capacities MAX_QUEUE and MAX_HISTORY are 200 and 500 in the source; *)
(* the laws of the store do not depend on their values, and they are       *)
(* scaled down here so that the model checker reaches and passes them.     *)
(***************************************************************************)
EXTENDS Integers, Sequences, FiniteSets, TLC

VARIABLES
    \* ---- store state (src/lib/store.ts, type Store) ----
    queue, history, totalCount, audio,
    overlayVisible, connected, introFinished, aboutVisible,
    \* ---- observation of the calls made on the store ----
    enqueued,     \* arguments of all enqueue calls so far, in call order
    returned,     \* defined results of all dequeue calls so far, in call order
    lastOp,       \* the store operation called last
    lastResult,   \* what the last dequeue call returned
    \* ---- one application of classifyMagnitude ----
    cpc, cSizeDelta, cIsRevert, cResult,
    \* ---- one application of normalizeEvent ----
    npc, raw, now, rnd, event,
    \* ---- audio engines (src/lib/audio.ts) ----
    engine,       \* the module variable: 0 (null) or the registered engine
    engines,      \* the engines created so far, each with its closure state
    timers,       \* the setInterval timers created so far, by engine
    pending,      \* init calls suspended at `await Tone.start()`
    toneNow,      \* Tone.now(), in milliseconds
    audioReady,   \* Scene's audioReady flag
    notes,        \* the notes the last step passed to the voices
    lastCall,     \* the audio operation called last
    \* ---- the event stream (route.ts GET, Scene.tsx SSE effect) ----
    ppc,          \* position of the connection and of the proxy's GET
    lastSentTime, \* the proxy's lastSentTime
    pnow,         \* Date.now() at the proxy, in milliseconds
    wire,         \* data of the messages sent and not yet delivered
    \* ---- the scene (ParticleSystem.tsx, Scene.tsx InnerScene) ----
    particles,    \* particlesRef.current: the pool of slots
    buffers,      \* per slot, its entries in positions, aSizes and aColors
    perfNow,      \* performance.now()
    isLowTier,    \* the device tier detected when Scene mounts
    lastFrame,    \* the callback of the scene that ran last
    displaceRef,  \* displaceRef.current of InnerScene, in hundredths
    isRevertRef,  \* isRevertRef.current of InnerScene, in hundredths
    visualState,  \* the visualState of InnerScene, passed on as props
    fed,          \* the triggerEdit and spawn calls of InnerScene, in order
    \* ---- the SSE effect of Scene (Scene.tsx:278-310) ----
    sources,      \* readyState of the EventSources created so far
    es,           \* the effect's variable es: 0 (null) or a source
    retries,      \* the timers set by setTimeout(connect, 3000)
    retryTimeout, \* the effect's variable retryTimeout: 0 or a timer
    effect,       \* the effect has not run, has run, is cleaned up
    cnow,         \* the browser's clock, in milliseconds
    \* ---- the pool with ambient motes (src/unnamed/part_011) ----
    mparticles,   \* particlesRef.current of the pool with motes
    mlast         \* the callback of that pool that ran last

storeVars == <<queue, history, totalCount, audio,
               overlayVisible, connected, introFinished, aboutVisible>>
callVars  == <<enqueued, returned, lastOp, lastResult>>
clsVars   == <<cpc, cSizeDelta, cIsRevert, cResult>>
normVars  == <<npc, raw, now, rnd, event>>
audioVars == <<engine, engines, timers, pending, toneNow, audioReady, notes, lastCall>>
pipeVars  == <<ppc, lastSentTime, pnow, wire>>
frameRefs == <<displaceRef, isRevertRef, visualState, fed>>
sceneVars == <<particles, buffers, perfNow, isLowTier, lastFrame, frameRefs>>
clientVars == <<sources, es, retries, retryTimeout, effect, cnow>>
moteVars  == <<mparticles, mlast>>
vars      == <<storeVars, callVars, clsVars, normVars, audioVars, pipeVars,
               sceneVars, clientVars, moteVars>>

----------------------------------------------------------------------------
(* Bounds of the model *)

MAX_QUEUE   == 2       \* capacity of the live queue (scaled)
MAX_HISTORY == 3       \* capacity of the history ring (scaled)
MaxEnq      == 4       \* enqueue calls explored in one run
MaxDelta    == 5001    \* classifyMagnitude is applied to -MaxDelta..MaxDelta
MaxEngines  == 2       \* engines created in one run
MaxPending  == 2       \* init calls suspended at the same time
MaxTicks    == 6       \* the audio clock stops at MaxTicks * TickMs
MaxTriggers == 2       \* triggerEdit calls that pass the test of initialized
TickMs      == 30      \* milliseconds of one advance of the audio clock
MaxWire     == 2       \* messages sent by the proxy and not yet delivered
MaxPipeTicks == 3      \* advances of the proxy's clock in one run
PipeTickMs  == 25      \* milliseconds of one advance of the proxy's clock
MaxParticles == 2      \* slots of the particle pool (scaled)
MaxPerfTicks == 2      \* advances of performance.now() in one run
MaxDrainEnq == 3       \* enqueue calls in SpecDrain
MaxMoteParticles == 4  \* slots of the pool with motes (scaled)
MaxMotes    == 2       \* ambient motes among them (scaled)
MaxSources  == 3       \* EventSources created by one run of the SSE effect
MaxClientTicks == 3    \* advances of the browser's clock in one run
ClientTickMs == 1500   \* milliseconds of one advance of the browser's clock
MaxClientMsgs == 2     \* messages that parse, delivered to the SSE effect
MaxFrameEnq == 2       \* events that arrive in one run of the render loop

----------------------------------------------------------------------------
(* JavaScript values *)

\* An optional value is a sequence of length at most one: <<>> is a missing
\* field (undefined), a null object, or the empty result of dequeue.
Undefined == <<>>
Null      == <<>>
Some(v)   == <<v>>

Abs(x) == IF x < 0 THEN -x ELSE x
Min(a, b) == IF a <= b THEN a ELSE b

\* x ?? d
Coalesce(x, d) == IF x = <<>> THEN d ELSE x[1]

\* Variant of ToBoolean: true for every field that is present.
ToBoolean_present(x) == x # <<>>

\* Boolean(x) for x a boolean or missing
ToBoolean(x) == IF x = <<>> THEN FALSE ELSE x[1]

\* The last n elements of s (all of s when it is shorter)
LastN(s, n) == IF Len(s) <= n THEN s ELSE SubSeq(s, Len(s) - n + 1, Len(s))

\* A string is the sequence of its characters.
LowerChar(c) ==
    CASE c = "R" -> "r" [] c = "E" -> "e" [] c = "V" -> "v" [] c = "T" -> "t"
      [] c = "U" -> "u" [] c = "N" -> "n" [] c = "D" -> "d" [] c = "O" -> "o"
      [] c = "X" -> "x" [] OTHER -> c

\* Variant of toLowerCase: the string as it is.
toLowerCase_id(s) == s

\* s.toLowerCase()
toLowerCase(s) == [i \in 1..Len(s) |-> LowerChar(s[i])]

\* s.includes(sub)
includes(s, sub) ==
    \E i \in 1..(Len(s) - Len(sub) + 1) : SubSeq(s, i, i + Len(sub) - 1) = sub

----------------------------------------------------------------------------
(* src/lib/classify.ts *)

EditMagnitude == {"TINY", "SMALL", "MEDIUM", "LARGE"}

\* Variants of classifyMagnitude: the LARGE boundary excluded; the SMALL band
\* starting at 50.
classifyMagnitude_gt(sizeDelta, isRevert) ==
    IF isRevert \/ Abs(sizeDelta) > 5000 THEN "LARGE"
    ELSE IF Abs(sizeDelta) >= 501 THEN "MEDIUM"
    ELSE IF Abs(sizeDelta) >= 51 THEN "SMALL"
    ELSE "TINY"
classifyMagnitude_50(sizeDelta, isRevert) ==
    IF isRevert \/ Abs(sizeDelta) >= 5000 THEN "LARGE"
    ELSE IF Abs(sizeDelta) >= 501 THEN "MEDIUM"
    ELSE IF Abs(sizeDelta) >= 50 THEN "SMALL"
    ELSE "TINY"

classifyMagnitude(sizeDelta, isRevert) ==
    IF isRevert \/ Abs(sizeDelta) >= 5000 THEN "LARGE"
    ELSE IF Abs(sizeDelta) >= 501 THEN "MEDIUM"
    ELSE IF Abs(sizeDelta) >= 51 THEN "SMALL"
    ELSE "TINY"

STR_revert == <<"r", "e", "v", "e", "r", "t">>
STR_undo   == <<"u", "n", "d", "o">>

\* normalizeEvent(raw) with Date.now() = nowMs and String(Math.random()) = rndId.
\* raw is Null or Some(record); every field of the record is optional.
\* Date.now() / 1000 * 1000 is taken as Date.now(). The link fields pageUrl
\* and editUrl of the later revision of this function are derived from title
\* and revision only and are left out of the event.
normalizeEvent(r, nowMs, rndId) ==
    IF r = Null THEN Null        \* raw.meta throws, the catch returns null
    ELSE
    LET o         == r[1]
        id        == Coalesce(IF o.meta = Undefined THEN Undefined ELSE o.meta[1].id,
                              Coalesce(o.id, rndId))
        title     == Coalesce(o.title, "")
        newLen    == Coalesce(IF o.length = Undefined THEN Undefined ELSE o.length[1].new, 0)
        oldLen    == Coalesce(IF o.length = Undefined THEN Undefined ELSE o.length[1].old, 0)
        sizeDelta == newLen - oldLen
        isBot     == ToBoolean(o.bot)
        comment   == Coalesce(o.comment, <<>>)
        isRevert  == \/ ToBoolean(o.reverted)
                     \/ includes(toLowerCase(comment), STR_revert)
                     \/ includes(toLowerCase(comment), STR_undo)
        timestamp == IF o.timestamp = Undefined THEN nowMs ELSE o.timestamp[1] * 1000
        magnitude == classifyMagnitude(sizeDelta, isRevert)
    IN  Some([id |-> id, title |-> title, sizeDelta |-> sizeDelta, isBot |-> isBot,
              isRevert |-> isRevert, timestamp |-> timestamp, magnitude |-> magnitude])

----------------------------------------------------------------------------
(* Inputs *)

\* "typo fix"
CommentTypoFix == <<"t","y","p","o"," ","f","i","x">>
\* "Reverted edits by X"
CommentReverted == <<"R","e","v","e","r","t","e","d"," ","e","d","i","t","s"," ","b","y"," ","X">>
\* "UNDO"
CommentUNDO == <<"U","N","D","O">>
\* "undo typo"
CommentUndo == <<"u","n","d","o"," ","t","y","p","o">>
\* "rever und0"  (neither "revert" nor "undo")
CommentNearMiss == <<"r","e","v","e","r"," ","u","n","d","0">>

Comments == {Undefined, Some(<<>>), Some(CommentTypoFix), Some(CommentReverted),
             Some(CommentUNDO), Some(CommentUndo), Some(CommentNearMiss)}

Lengths    == {100, 150, 200, 500, 5200}
Timestamps == {0, 1700000}      \* seconds; times 1000 they stay below 2^31
OptBool    == {Undefined, Some(TRUE), Some(FALSE)}

RawObjects ==
    [meta      : {Undefined, Some([id |-> Undefined]), Some([id |-> Some("m1")])},
     id        : {Undefined, Some("r1")},
     title     : {Undefined, Some("Foo")},
     length    : {Undefined} \cup
                 {Some([old |-> Some(a), new |-> Some(b)]) : a \in Lengths, b \in Lengths}
                 \cup {Some([old |-> Undefined, new |-> Some(150)])},
     bot       : OptBool,
     reverted  : OptBool,
     comment   : Comments,
     timestamp : {Undefined} \cup {Some(t) : t \in Timestamps}]

RawRecords == {Null} \cup {Some(o) : o \in RawObjects}

\* Values of Date.now() (ms) and of String(Math.random())
Nows    == {1700000123}
Randoms == {"0.25"}

\* The two scenario records of the specification
RawTypoFix ==
    Some([meta |-> Undefined, id |-> Some("r1"), title |-> Some("Foo"),
          length |-> Some([old |-> Some(100), new |-> Some(150)]),
          bot |-> Some(FALSE), reverted |-> Undefined,
          comment |-> Some(CommentTypoFix), timestamp |-> Some(1700000)])
RawReverted ==
    Some([meta |-> Undefined, id |-> Some("r1"), title |-> Some("Foo"),
          length |-> Some([old |-> Some(500), new |-> Some(200)]),
          bot |-> Undefined, reverted |-> Undefined,
          comment |-> Some(CommentReverted), timestamp |-> Some(1700000)])

\* The canonical events offered to the store
Events == {normalizeEvent(RawTypoFix, 0, "0.25")[1],
           normalizeEvent(RawReverted, 0, "0.25")[1]}

\* Audio levels, in [0,1]
Levels == {0, 1}
AudioKeys == {"amplitude", "lowFreq", "highFreq"}
\* Partial<AudioState>: the empty update, one key, two keys, all three keys
PartialAudio ==
    [{} -> Levels]
    \cup [{"amplitude"} -> Levels]
    \cup {[k \in {"lowFreq", "highFreq"} |-> l] : l \in Levels}
    \cup {[k \in AudioKeys |-> 0]}

----------------------------------------------------------------------------
(* src/lib/store.ts *)

InitStore ==
    /\ queue = <<>>
    /\ history = <<>>
    /\ totalCount = 0
    /\ audio = [amplitude |-> 0, lowFreq |-> 0, highFreq |-> 0]
    /\ overlayVisible = TRUE
    /\ connected = FALSE
    /\ introFinished = FALSE
    /\ aboutVisible = FALSE

InitCalls ==
    /\ enqueued = <<>>
    /\ returned = <<>>
    /\ lastOp = "none"
    /\ lastResult = Undefined

\* Variants of Push: evicting only above capacity; evicting the newest; and
\* suppressing an event equal to the newest one held.
Push_gt(s, cap, e) == IF Len(s) > cap THEN Append(Tail(s), e) ELSE Append(s, e)
Push_dropNewest(s, cap, e) ==
    IF Len(s) >= cap THEN Append(SubSeq(s, 1, Len(s) - 1), e) ELSE Append(s, e)
Push_dedup(s, cap, e) ==
    IF Len(s) > 0 /\ s[Len(s)] = e THEN s
    ELSE IF Len(s) >= cap THEN Append(Tail(s), e) ELSE Append(s, e)

\* [...s.slice(1), event] at capacity, [...s, event] below it
Push(s, cap, e) == IF Len(s) >= cap THEN Append(Tail(s), e) ELSE Append(s, e)

\* Variant of enqueue: the counter is not advanced when the queue evicts.
enqueue_noCountOnEvict(e) ==
    /\ Len(enqueued) < MaxEnq
    /\ queue' = Push(queue, MAX_QUEUE, e)
    /\ history' = Push(history, MAX_HISTORY, e)
    /\ totalCount' = IF Len(queue) >= MAX_QUEUE THEN totalCount ELSE totalCount + 1
    /\ enqueued' = Append(enqueued, e)
    /\ lastOp' = "enqueue"
    /\ UNCHANGED <<audio, overlayVisible, connected, introFinished, aboutVisible>>
    /\ UNCHANGED <<returned, lastResult>>

\* Variant of enqueue: the event is not recorded in the history.
enqueue_queueOnly(e) ==
    /\ Len(enqueued) < MaxEnq
    /\ queue' = Push(queue, MAX_QUEUE, e)
    /\ totalCount' = totalCount + 1
    /\ enqueued' = Append(enqueued, e)
    /\ lastOp' = "enqueue"
    /\ UNCHANGED <<history, audio, overlayVisible, connected, introFinished, aboutVisible>>
    /\ UNCHANGED <<returned, lastResult>>

enqueue(e) ==
    /\ Len(enqueued) < MaxEnq
    /\ queue' = Push(queue, MAX_QUEUE, e)
    /\ history' = Push(history, MAX_HISTORY, e)
    /\ totalCount' = totalCount + 1
    /\ enqueued' = Append(enqueued, e)
    /\ lastOp' = "enqueue"
    /\ UNCHANGED <<audio, overlayVisible, connected, introFinished, aboutVisible>>
    /\ UNCHANGED <<returned, lastResult>>

\* Variants of dequeue: taking the newest element; and consuming from the
\* history as well.
dequeue_pop ==
    /\ lastOp' = "dequeue"
    /\ IF Len(queue) = 0
       THEN /\ lastResult' = Undefined
            /\ UNCHANGED <<queue, returned>>
       ELSE /\ queue' = SubSeq(queue, 1, Len(queue) - 1)
            /\ lastResult' = Some(queue[Len(queue)])
            /\ returned' = Append(returned, queue[Len(queue)])
    /\ UNCHANGED <<history, totalCount, audio,
                   overlayVisible, connected, introFinished, aboutVisible>>
    /\ UNCHANGED enqueued
dequeue_fromHistory ==
    /\ lastOp' = "dequeue"
    /\ IF Len(queue) = 0
       THEN /\ lastResult' = Undefined
            /\ UNCHANGED <<queue, returned, history>>
       ELSE /\ queue' = Tail(queue)
            /\ history' = Tail(history)
            /\ lastResult' = Some(Head(queue))
            /\ returned' = Append(returned, Head(queue))
    /\ UNCHANGED <<totalCount, audio,
                   overlayVisible, connected, introFinished, aboutVisible>>
    /\ UNCHANGED enqueued

dequeue ==
    /\ lastOp' = "dequeue"
    /\ IF Len(queue) = 0
       THEN /\ lastResult' = Undefined
            /\ UNCHANGED <<queue, returned>>
       ELSE /\ queue' = Tail(queue)
            /\ lastResult' = Some(Head(queue))
            /\ returned' = Append(returned, Head(queue))
    /\ UNCHANGED <<history, totalCount, audio,
                   overlayVisible, connected, introFinished, aboutVisible>>
    /\ UNCHANGED enqueued

\* { ...s.audio, ...audio }
MergeAudio(a, p) == [k \in AudioKeys |-> IF k \in DOMAIN p THEN p[k] ELSE a[k]]

setAudio(p) ==
    /\ audio' = MergeAudio(audio, p)
    /\ lastOp' = "setAudio"
    /\ UNCHANGED <<queue, history, totalCount,
                   overlayVisible, connected, introFinished, aboutVisible>>
    /\ UNCHANGED <<enqueued, returned, lastResult>>

toggleOverlay ==
    /\ overlayVisible' = ~overlayVisible
    /\ lastOp' = "flag"
    /\ UNCHANGED <<queue, history, totalCount, audio,
                   connected, introFinished, aboutVisible>>
    /\ UNCHANGED <<enqueued, returned, lastResult>>

setConnected(v) ==
    /\ connected' = v
    /\ lastOp' = "flag"
    /\ UNCHANGED <<queue, history, totalCount, audio,
                   overlayVisible, introFinished, aboutVisible>>
    /\ UNCHANGED <<enqueued, returned, lastResult>>

setIntroFinished(v) ==
    /\ introFinished' = v
    /\ lastOp' = "flag"
    /\ UNCHANGED <<queue, history, totalCount, audio,
                   overlayVisible, connected, aboutVisible>>
    /\ UNCHANGED <<enqueued, returned, lastResult>>

toggleAbout ==
    /\ aboutVisible' = ~aboutVisible
    /\ lastOp' = "flag"
    /\ UNCHANGED <<queue, history, totalCount, audio,
                   overlayVisible, connected, introFinished>>
    /\ UNCHANGED <<enqueued, returned, lastResult>>

setAboutVisible(v) ==
    /\ aboutVisible' = v
    /\ lastOp' = "flag"
    /\ UNCHANGED <<queue, history, totalCount, audio,
                   overlayVisible, connected, introFinished>>
    /\ UNCHANGED <<enqueued, returned, lastResult>>

----------------------------------------------------------------------------
(* One application of classifyMagnitude *)

InitClassifyIdle ==
    /\ cpc = "idle" /\ cSizeDelta = 0 /\ cIsRevert = FALSE /\ cResult = "TINY"

InitClassify ==
    /\ cpc = "call"
    /\ cSizeDelta \in (-MaxDelta)..MaxDelta
    /\ cIsRevert \in BOOLEAN
    /\ cResult = "TINY"

Classify ==
    /\ cpc = "call"
    /\ cResult' = classifyMagnitude(cSizeDelta, cIsRevert)
    /\ cpc' = "done"
    /\ UNCHANGED <<cSizeDelta, cIsRevert>>
    /\ UNCHANGED <<storeVars, callVars, normVars, audioVars, pipeVars, sceneVars, clientVars, moteVars>>

----------------------------------------------------------------------------
(* One application of normalizeEvent *)

InitNormalizeIdle ==
    /\ npc = "idle" /\ raw = Null /\ now = 0 /\ rnd = "" /\ event = Null

InitNormalize ==
    /\ npc = "call"
    /\ raw \in RawRecords
    /\ now \in Nows
    /\ rnd \in Randoms
    /\ event = Null

Normalize ==
    /\ npc = "call"
    /\ event' = normalizeEvent(raw, now, rnd)
    /\ npc' = "done"
    /\ UNCHANGED <<raw, now, rnd>>
    /\ UNCHANGED <<storeVars, callVars, clsVars, audioVars, pipeVars, sceneVars, clientVars, moteVars>>

----------------------------------------------------------------------------
(* src/lib/audio.ts *)
(* Times are in milliseconds: 0.005 s is 5, 0.12 s is 120.  A value of      *)
(* rand(seed, salt), which lies in [0, 1], is drawn in halves: 0, 1, 2       *)
(* stand for 0, 0.5, 1.  The seed is a hash of the event and of              *)
(* variationTick; the draws of one call are an input of the call.            *)

Max(a, b) == IF a >= b THEN a ELSE b

Voices == {"harp", "celesta", "choir", "orchestra", "kuro", "bot"}

\* The closure state of a new engine (audio.ts:18, 160-165), with the effect
\* parameters set by the constructors (audio.ts:29-35), the time last passed
\* to each voice (-1: none) and a record of what has happened to the engine.
\* droneIdx, local to startDrone, only selects the chord of the drone and is
\* not kept.
NewEngine ==
    [initialized   |-> FALSE,
     noteIdx       |-> 0,
     nextTrigger   |-> 0,
     lastTriggerAt |-> 0,
     droneStarted  |-> FALSE,
     droneInterval |-> 0,
     variationTick |-> 0,
     fx            |-> [chorus |-> 200, delay |-> 500, reverbWet |-> 550],
     voiceLast     |-> [v \in Voices |-> -1],
     droneAttacks  |-> 0,        \* executions of the body of startDrone
     lastStart     |-> 0,        \* jitteredTime of the last accepted trigger
     started       |-> FALSE,    \* a Tone.start() awaited by init has resolved
     failed        |-> FALSE,    \* a Tone.start() awaited by init has rejected
     disposed      |-> FALSE]    \* dispose() has been called

InitAudioAt(t) ==
    /\ engine = 0
    /\ engines = <<>>
    /\ timers = <<>>
    /\ pending = <<>>
    /\ toneNow = t
    /\ audioReady = FALSE
    /\ notes = <<>>
    /\ lastCall = [op |-> "none", eng |-> 0, accepted |-> FALSE]

InitAudio == InitAudioAt(0)

\* Math.min(1, Math.log10(Math.abs(sizeDelta) + 10) / 4), in thousandths, for
\* the size deltas of the events used here.
EnergyMilli(sizeDelta) ==
    CASE Abs(sizeDelta) = 10   -> 325
      [] Abs(sizeDelta) = 50   -> 444
      [] Abs(sizeDelta) = 300  -> 622
      [] Abs(sizeDelta) = 1000 -> 751
      [] Abs(sizeDelta) = 5200 -> 929
      [] OTHER -> 1000

\* Variant of MinGap: one gap for all events.
MinGap_flat(ev) == 60

\* minGap of triggerEdit
MinGap(ev) ==
    IF ev.isRevert \/ ev.magnitude = "LARGE" THEN 120
    ELSE IF ev.magnitude = "MEDIUM" THEN 90
    ELSE 60

\* Variant of getNextTriggerTime: the cursor alone.
getNextTriggerTime_cursor(E, tnow) == E.nextTrigger + 2

\* The value getNextTriggerTime assigns to nextTrigger and returns
getNextTriggerTime(E, tnow) == Max(tnow + 5, E.nextTrigger + 2)

\* Variant of Jitter: ten times as wide.
Jitter_wide(r) == (r - 1) * 100

\* (rand(seed, 3) - 0.5) * 0.02
Jitter(r) == (r - 1) * 10

Note(v, t) == [voice |-> v, time |-> t]

\* The calls of triggerAttackRelease made for an event that is neither a bot
\* edit nor a revert, in call order; jt is jitteredTime, d the draws.
MagnitudeNotes(ev, jt, d) ==
    CASE ev.magnitude = "TINY" -> << Note("harp", jt) >>
      [] ev.magnitude = "SMALL" ->
           << Note("celesta", jt), Note("celesta", jt + 30 + d.lag * 35) >>
      [] ev.magnitude = "MEDIUM" ->
           << Note("choir", jt) >> \o
           [k \in 1..4 |-> Note("harp", jt + (k - 1) * (35 + d.a[k - 1] * 15))]
      [] ev.magnitude = "LARGE" ->
           << Note("orchestra", jt) >> \o
           [k \in 1..12 |->
              LET i    == (k - 1) \div 2
                  step == 50 + d.a[i] * 30
              IN  IF k % 2 = 1
                  THEN Note("harp", jt + i * step)
                  ELSE Note("celesta", jt + i * step + 30 + d.b[i] * 15)]
      [] OTHER -> << >>

\* The notes of an accepted trigger
TriggerNotes(ev, jt, d) ==
    IF ev.isBot THEN << Note("bot", jt) >>
    ELSE IF ev.isRevert THEN << Note("kuro", jt) >>
    ELSE MagnitudeNotes(ev, jt, d)

\* The time passed last to voice v by the calls ns, or old if there is none
LastOn(v, ns, old) ==
    LET idx == {k \in 1..Len(ns) : ns[k].voice = v}
    IN  IF idx = {} THEN old
        ELSE ns[CHOOSE k \in idx : \A j \in idx : j <= k].time

\* triggerEdit from `lastTriggerAt = now` on (audio.ts:233-302): the engine
\* state after an accepted trigger and the notes passed to the voices.
Accept(E, ev, d, tnow) ==
    LET cursor == getNextTriggerTime(E, tnow)
        jt     == cursor + Jitter(d.jit)
        ns     == TriggerNotes(ev, jt, d)
    IN  [eng |-> [E EXCEPT
                    !.lastTriggerAt = tnow,
                    !.nextTrigger = cursor,
                    !.fx = [chorus    |-> 160 + d.fx[1] * 225,
                            delay     |-> 150 + d.fx[2] * 175,
                            reverbWet |-> 400 + (EnergyMilli(ev.sizeDelta) * 4) \div 10
                                              + d.fx[3] * 60],
                    !.noteIdx = @ + 1,
                    !.lastStart = jt,
                    !.voiceLast = [v \in Voices |-> LastOn(v, ns, E.voiceLast[v])]],
         notes |-> ns, accepted |-> TRUE]

\* Variant of Gate: the clock is recorded before the gap is tested.
Gate_stamp(E, ev, d, tnow) ==
    IF tnow - E.lastTriggerAt < MinGap(ev)
    THEN [eng |-> [E EXCEPT !.variationTick = @ + 1, !.lastTriggerAt = tnow],
          notes |-> << >>, accepted |-> FALSE]
    ELSE Accept([E EXCEPT !.variationTick = @ + 1], ev, d, tnow)

\* triggerEdit after the test of initialized (audio.ts:219-232)
Gate(E, ev, d, tnow) ==
    IF tnow - E.lastTriggerAt < MinGap(ev)
    THEN [eng |-> [E EXCEPT !.variationTick = @ + 1],
          notes |-> << >>, accepted |-> FALSE]
    ELSE Accept([E EXCEPT !.variationTick = @ + 1], ev, d, tnow)

\* Variant of TriggerResult: no test of initialized.
TriggerResult_always(E, ev, d, tnow) == Gate(E, ev, d, tnow)

\* triggerEdit (audio.ts:217-303) as a function of the engine state
TriggerResult(E, ev, d, tnow) ==
    IF ~E.initialized
    THEN [eng |-> E, notes |-> << >>, accepted |-> FALSE]
    ELSE Gate(E, ev, d, tnow)

\* Variant of startDrone: no test of droneStarted.
startDrone_again(E, T, e) ==
    [engines |-> [E EXCEPT ![e].droneStarted = TRUE,
                           ![e].droneAttacks = @ + 1,
                           ![e].droneInterval = Len(T[e]) + 1],
     timers  |-> [T EXCEPT ![e] = Append(@, TRUE)]]

\* startDrone (audio.ts:187-215) on engine e: the engines and the timers after.
\* timers[e] holds the timers set by engine e, in the order of their creation
\* (TRUE: running, FALSE: cleared); droneInterval is the place of the timer
\* in timers[e], 0 when none was ever set.
startDrone(E, T, e) ==
    IF E[e].droneStarted THEN [engines |-> E, timers |-> T]
    ELSE [engines |-> [E EXCEPT ![e].droneStarted = TRUE,
                                ![e].droneAttacks = @ + 1,
                                ![e].droneInterval = Len(T[e]) + 1],
          timers  |-> [T EXCEPT ![e] = Append(@, TRUE)]]

Call(o, e, acc) == [op |-> o, eng |-> e, accepted |-> acc]

Without(q, k) == SubSeq(q, 1, k - 1) \o SubSeq(q, k + 1, Len(q))

\* The suspended calls are kept in a fixed order (by engine, initAudio's
\* calls last): which of them resumes next does not depend on their order.
Rank2(c) == 2 * c.eng + (IF c.scene THEN 1 ELSE 0)
Suspend(q, c) ==
    LET n == Cardinality({k \in 1..Len(q) : Rank2(q[k]) <= Rank2(c)})
    IN  SubSeq(q, 1, n) \o << c >> \o SubSeq(q, n + 1, Len(q))

\* getAudioEngine(): the registered engine, or a new one
getAudioEngine ==
    /\ IF engine # 0
       THEN /\ UNCHANGED <<engine, engines, timers>>
            /\ lastCall' = Call("getAudioEngine", engine, FALSE)
       ELSE /\ Len(engines) < MaxEngines
            /\ engines' = Append(engines, NewEngine)
            /\ timers' = Append(timers, << >>)
            /\ engine' = Len(engines) + 1
            /\ lastCall' = Call("getAudioEngine", Len(engines) + 1, TRUE)
    /\ notes' = << >>
    /\ UNCHANGED <<pending, toneNow, audioReady>>

\* engine.init() up to its await, called on engine e by some holder of e
init(e) ==
    /\ IF engines[e].initialized
       THEN UNCHANGED pending
       ELSE /\ Len(pending) < MaxPending
            /\ pending' = Suspend(pending, [eng |-> e, scene |-> FALSE])
    /\ lastCall' = Call("init", e, FALSE)
    /\ notes' = << >>
    /\ UNCHANGED <<engine, engines, timers, toneNow, audioReady>>

\* Scene's initAudio (Scene.tsx:271-275) up to the await of Tone.start();
\* when init returns at once, setAudioReady(true) follows
initAudio ==
    /\ ~audioReady
    /\ engine # 0 \/ Len(engines) < MaxEngines
    /\ LET e == IF engine # 0 THEN engine ELSE Len(engines) + 1
           E == IF engine # 0 THEN engines ELSE Append(engines, NewEngine)
       IN  /\ engine' = e
           /\ engines' = E
           /\ timers' = IF engine # 0 THEN timers ELSE Append(timers, << >>)
           /\ IF E[e].initialized
              THEN audioReady' = TRUE /\ UNCHANGED pending
              ELSE /\ Len(pending) < MaxPending
                   /\ pending' = Suspend(pending, [eng |-> e, scene |-> TRUE])
                   /\ UNCHANGED audioReady
           /\ lastCall' = Call("initAudio", e, FALSE)
    /\ notes' = << >>
    /\ UNCHANGED toneNow

\* Tone.start() resolves for the k-th suspended init: init sets initialized
\* and calls startDrone; a call made by initAudio then sets audioReady
ToneStartResolve(k) ==
    LET c == pending[k]
        r == startDrone([engines EXCEPT ![c.eng].initialized = TRUE,
                                        ![c.eng].started = TRUE],
                        timers, c.eng)
    IN  /\ engines' = r.engines
        /\ timers' = r.timers
        /\ pending' = Without(pending, k)
        /\ audioReady' = (audioReady \/ c.scene)
        /\ lastCall' = Call("resolve", c.eng, ~engines[c.eng].droneStarted)
        /\ notes' = << >>
        /\ UNCHANGED <<engine, toneNow>>

\* Tone.start() resolves for the k-th suspended init of an engine that was
\* disposed in the meantime and has not started its drone: init sets
\* initialized, and startDrone, having set droneStarted, calls triggerAttack
\* on a disposed synth.  What a disposed Tone.js node does is not fixed by the
\* source: ToneStartResolve is the outcome where the call returns, this one
\* the outcome where it throws, so that no timer is set and init rejects.
ToneStartResolveThrows(k) ==
    LET c == pending[k]
    IN  /\ engines[c.eng].disposed /\ ~engines[c.eng].droneStarted
        /\ engines' = [engines EXCEPT ![c.eng].initialized = TRUE,
                                      ![c.eng].started = TRUE,
                                      ![c.eng].droneStarted = TRUE]
        /\ pending' = Without(pending, k)
        /\ lastCall' = Call("resolveThrows", c.eng, FALSE)
        /\ notes' = << >>
        /\ UNCHANGED <<engine, timers, toneNow, audioReady>>

\* Variant of ToneStartReject: the engine is marked initialized all the same.
ToneStartReject_init(k) ==
    LET c == pending[k]
    IN  /\ engines' = [engines EXCEPT ![c.eng].initialized = TRUE,
                                      ![c.eng].failed = TRUE]
        /\ pending' = Without(pending, k)
        /\ lastCall' = Call("reject", c.eng, FALSE)
        /\ notes' = << >>
        /\ UNCHANGED <<engine, timers, toneNow, audioReady>>

\* Tone.start() rejects for the k-th suspended init: init rejects at its
\* await, and so does initAudio
ToneStartReject(k) ==
    LET c == pending[k]
    IN  /\ engines' = [engines EXCEPT ![c.eng].failed = TRUE]
        /\ pending' = Without(pending, k)
        /\ lastCall' = Call("reject", c.eng, FALSE)
        /\ notes' = << >>
        /\ UNCHANGED <<engine, timers, toneNow, audioReady>>

\* Variant of dispose: the module variable keeps the engine.
dispose_registered(e) ==
    /\ timers' = IF engines[e].droneInterval # 0
                 THEN [timers EXCEPT ![e][engines[e].droneInterval] = FALSE]
                 ELSE timers
    /\ engines' = [engines EXCEPT ![e].initialized = FALSE, ![e].disposed = TRUE]
    /\ UNCHANGED engine
    /\ lastCall' = Call("dispose", e, FALSE)
    /\ notes' = << >>
    /\ UNCHANGED <<pending, toneNow, audioReady>>

\* dispose() of engine e (audio.ts:328-348)
dispose(e) ==
    /\ timers' = IF engines[e].droneInterval # 0
                 THEN [timers EXCEPT ![e][engines[e].droneInterval] = FALSE]
                 ELSE timers
    /\ engines' = [engines EXCEPT ![e].initialized = FALSE, ![e].disposed = TRUE]
    /\ engine' = 0
    /\ lastCall' = Call("dispose", e, FALSE)
    /\ notes' = << >>
    /\ UNCHANGED <<pending, toneNow, audioReady>>

\* dispose() of an engine disposed before, in the outcome where releaseAll
\* on the disposed droneSynth throws: the timer has been cleared, the
\* assignments at the end are not reached
disposeThrows(e) ==
    /\ engines[e].disposed
    /\ timers' = IF engines[e].droneInterval # 0
                 THEN [timers EXCEPT ![e][engines[e].droneInterval] = FALSE]
                 ELSE timers
    /\ lastCall' = Call("disposeThrows", e, FALSE)
    /\ notes' = << >>
    /\ UNCHANGED <<engine, engines, pending, toneNow, audioReady>>

\* The callback of the k-th timer of engine e (audio.ts:205-214): it plays
\* the next chord of the drone, on the pad, when the engine is initialized
DroneFire(e, k) ==
    /\ timers[e][k]
    /\ lastCall' = Call("drone", e, engines[e].initialized)
    /\ notes' = << >>
    /\ UNCHANGED <<engine, engines, timers, pending, toneNow, audioReady>>

\* triggerEdit(ev) on engine e with the draws d
RECURSIVE SumTicks(_, _)
SumTicks(E, n) == IF n = 0 THEN 0 ELSE E[n].variationTick + SumTicks(E, n - 1)

triggerEdit(e, ev, d) ==
    /\ SumTicks(engines, Len(engines)) < MaxTriggers
    /\ LET r == TriggerResult(engines[e], ev, d, toneNow)
       IN  /\ engines' = [engines EXCEPT ![e] = r.eng]
           /\ notes' = r.notes
           /\ lastCall' = Call("triggerEdit", e, r.accepted)
    /\ UNCHANGED <<engine, timers, pending, toneNow, audioReady>>

\* triggerEdit(ev) on an engine that was disposed and is initialized again, in
\* the outcome where the first call on a disposed node (chorus.frequency,
\* audio.ts:236) throws
triggerEditThrows(e, ev, d) ==
    /\ SumTicks(engines, Len(engines)) < MaxTriggers
    /\ engines[e].disposed /\ engines[e].initialized
    /\ toneNow - engines[e].lastTriggerAt >= MinGap(ev)
    /\ engines' = [engines EXCEPT
                     ![e].variationTick = @ + 1,
                     ![e].lastTriggerAt = toneNow,
                     ![e].nextTrigger = getNextTriggerTime(engines[e], toneNow)]
    /\ notes' = << >>
    /\ lastCall' = Call("triggerEditThrows", e, FALSE)
    /\ UNCHANGED <<engine, timers, pending, toneNow, audioReady>>

\* The audio clock advances
Tick ==
    /\ toneNow < MaxTicks * TickMs
    /\ toneNow' = toneNow + TickMs
    /\ notes' = << >>
    /\ lastCall' = Call("tick", 0, FALSE)
    /\ UNCHANGED <<engine, engines, timers, pending, audioReady>>

\* Events for the audio engine: one of each kind
MkEvent(i, delta, bot, revert) ==
    [id |-> i, title |-> "Foo", sizeDelta |-> delta, isBot |-> bot,
     isRevert |-> revert, timestamp |-> 1700000000,
     magnitude |-> classifyMagnitude(delta, revert)]
EvTiny   == MkEvent("e1", 50, FALSE, FALSE)
EvSmall  == MkEvent("e2", 300, FALSE, FALSE)
EvMedium == MkEvent("e3", -1000, FALSE, FALSE)
EvLarge  == MkEvent("e4", 5200, FALSE, FALSE)
EvRevert == MkEvent("e5", -300, FALSE, TRUE)
EvBot    == MkEvent("e6", 10, TRUE, FALSE)
EvBotRevert == MkEvent("e7", 10, TRUE, TRUE)
AudioEvents == {EvTiny, EvSmall, EvMedium, EvLarge, EvRevert, EvBot, EvBotRevert}

\* Draws of one triggerEdit call: the jitter (salt 3), the effect parameters
\* (salts 5, 7, 11), the lag (salt 47) and the per-note draws a (salts 73+i,
\* 101+i) and b (salts 127+i)
Const(r) == [i \in 0..5 |-> r]
Falling  == [i \in 0..5 |-> IF i <= 1 THEN 2 ELSE 0]
Draw(j, f, l, a, b) == [jit |-> j, fx |-> f, lag |-> l, a |-> a, b |-> b]
Draws ==
    {Draw(j, <<1, 2, 0>>, j, Const(j), Const(2 - j)) : j \in 0..2}
    \cup {Draw(1, <<0, 0, 2>>, 0, Falling, Const(0))}
DrawMid == Draw(1, <<1, 1, 1>>, 1, Const(1), Const(1))

EngineIds == 1..Len(engines)

----------------------------------------------------------------------------
(* src/app/api/wiki-stream/route.ts and the SSE effect of Scene.tsx *)
(* A message is the text after "data: ".  JSON texts are kept as the pair   *)
(* of a tag and the value they denote: for the values sent here (records of *)
(* strings, integers and booleans) JSON.parse gives back the value that     *)
(* JSON.stringify was given.                                                *)

MIN_INTERVAL_MS == 50

JSONstringify(v) == << "json", v >>
JSONparse(t) == t[2]

\* { error: String(err) } for a failed fetch
FetchError == [error |-> "TypeError: fetch failed"]

\* Lines of the upstream stream: a line that does not start with "data:", a
\* data line with nothing after it, a data line that is not JSON, and data
\* lines with the JSON texts null, a record of type "log", and records of
\* type "edit"
UpstreamLines ==
    {[kind |-> "other", type |-> Undefined, raw |-> Null],
     [kind |-> "empty", type |-> Undefined, raw |-> Null],
     [kind |-> "malformed", type |-> Undefined, raw |-> Null],
     [kind |-> "json", type |-> Undefined, raw |-> Null],
     [kind |-> "json", type |-> Some("log"), raw |-> RawTypoFix],
     [kind |-> "json", type |-> Some("edit"), raw |-> RawTypoFix],
     [kind |-> "json", type |-> Some("edit"), raw |-> RawReverted]}

InitPipe ==
    /\ ppc = "idle"
    /\ lastSentTime = 0
    /\ pnow = 1700000123
    /\ wire = << >>

\* Variant of Forward: an event that comes too early is sent all the same.
Forward_unthrottled(l, tnow, last) ==
    IF l.kind # "json" THEN << >>
    ELSE IF l.raw = Null THEN << >>
    ELSE IF l.type # Some("edit") THEN << >>
    ELSE normalizeEvent(l.raw, tnow, "0.25")

\* The body of the proxy's loop over the lines (route.ts:55-76): the event
\* to send for line l, if any
Forward(l, tnow, last) ==
    IF l.kind # "json" THEN << >>            \* skipped, or JSON.parse throws
    ELSE IF l.raw = Null THEN << >>          \* raw.type throws, caught
    ELSE IF l.type # Some("edit") THEN << >>
    ELSE LET ev == normalizeEvent(l.raw, tnow, "0.25")
         IN  IF ev = Null THEN << >>
             ELSE IF tnow - last >= MIN_INTERVAL_MS THEN ev
             ELSE << >>

\* connect() of the SSE effect: a new EventSource, and with it a new GET
connect ==
    /\ ppc = "idle"
    /\ ppc' = "fetch"
    /\ UNCHANGED <<lastSentTime, pnow, wire>>
    /\ UNCHANGED <<storeVars, callVars>>

\* es.onopen
onopen ==
    /\ ppc # "idle" /\ ~connected
    /\ setConnected(TRUE)
    /\ UNCHANGED pipeVars

\* The proxy's fetch of the upstream rejects (route.ts:20-30)
FetchRejects ==
    /\ ppc = "fetch"
    /\ Len(wire) < MaxWire
    /\ wire' = Append(wire, JSONstringify(FetchError))
    /\ ppc' = "closed"
    /\ UNCHANGED <<lastSentTime, pnow>>
    /\ UNCHANGED <<storeVars, callVars>>

\* The fetch resolves with a response without a body (route.ts:32-35)
FetchNoBody ==
    /\ ppc = "fetch"
    /\ ppc' = "closed"
    /\ UNCHANGED <<lastSentTime, pnow, wire>>
    /\ UNCHANGED <<storeVars, callVars>>

\* The fetch resolves with a body (route.ts:37-41)
FetchResolves ==
    /\ ppc = "fetch"
    /\ ppc' = "read"
    /\ lastSentTime' = 0
    /\ UNCHANGED <<pnow, wire>>
    /\ UNCHANGED <<storeVars, callVars>>

\* reader.read() delivers the line l (route.ts:47-77)
ReadLine(l) ==
    /\ ppc = "read"
    /\ Len(wire) < MaxWire
    /\ LET ev == Forward(l, pnow, lastSentTime)
       IN  IF ev = << >>
           THEN UNCHANGED <<wire, lastSentTime>>
           ELSE /\ wire' = Append(wire, JSONstringify(ev[1]))
                /\ lastSentTime' = pnow
    /\ UNCHANGED <<ppc, pnow>>
    /\ UNCHANGED <<storeVars, callVars>>

\* The upstream ends or fails, or the request is aborted (route.ts:45-48,
\* 79-88)
ReadDone ==
    /\ ppc = "read"
    /\ ppc' = "closed"
    /\ UNCHANGED <<lastSentTime, pnow, wire>>
    /\ UNCHANGED <<storeVars, callVars>>

\* The proxy's clock advances
PipeTick ==
    /\ pnow < 1700000123 + MaxPipeTicks * PipeTickMs
    /\ pnow' = pnow + PipeTickMs
    /\ UNCHANGED <<ppc, lastSentTime, wire>>
    /\ UNCHANGED <<storeVars, callVars>>

\* es.onmessage (Scene.tsx:287-294) for the oldest message on the wire
onmessage ==
    /\ wire # << >>
    /\ wire' = Tail(wire)
    /\ enqueue(JSONparse(wire[1]))
    /\ UNCHANGED <<ppc, lastSentTime, pnow>>

\* es.onerror (Scene.tsx:296-300) when the stream has ended; the retry
\* timer then calls connect
onerror ==
    /\ ppc = "closed" /\ wire = << >>
    /\ setConnected(FALSE)
    /\ ppc' = "idle"
    /\ UNCHANGED <<lastSentTime, pnow, wire>>

----------------------------------------------------------------------------
(* src/components/ParticleSystem.tsx *)
(* The pool has 1200 or 4800 slots in the source; it is scaled down to      *)
(* MaxParticles.  Lifetimes and frame deltas are in tenths of a second.  Of *)
(* a position only the distance from the origin is kept, and of the render  *)
(* buffers, for each slot, whether its position, size and colour entries    *)
(* are zero.  The displacement of a particle in a frame, the outcome of the *)
(* vector arithmetic of the frame callback, is an input of the frame.       *)

\* seedNorm(seed, 11), in halves, for the seed hashed from the event: the
\* seed is a function of id, title and timestamp
SeedNorm11(ev) == IF ev.isRevert THEN 2 ELSE 0

\* The life of a particle whose event has no magnitude: the switch of
\* lifeFromMagnitude returns undefined, and `p.life -= delta` makes it NaN
NaN == -1000000

\* x - d, x <= 0 and x < 0 in floating point
Aged(x, d) == IF x = NaN THEN NaN ELSE x - d
Leq0(x) == x # NaN /\ x <= 0
Lt0(x)  == x # NaN /\ x < 0

\* lifeFromMagnitude, in tenths of a second
lifeFromMagnitude(magnitude, r) ==
    LET variation == 65 + r * 45        \* 0.65 + seedNorm * 0.9, in hundredths
        base == CASE magnitude = "TINY"   -> 22
                  [] magnitude = "SMALL"  -> 36
                  [] magnitude = "MEDIUM" -> 54
                  [] magnitude = "LARGE"  -> 82
    IN  IF magnitude \notin {"TINY", "SMALL", "MEDIUM", "LARGE"} THEN NaN
        ELSE (base * variation) \div 100

\* editColor: the key of the colour in ORI_COLORS
editColor(ev) ==
    IF ev.isRevert THEN "revert"
    ELSE IF ev.isBot THEN "bot"
    ELSE IF ev.sizeDelta > 0 THEN "add"
    ELSE "remove"

\* One slot of createInitialParticles
InitialParticle ==
    [active |-> FALSE, dist |-> 0, life |-> 0, maxLife |-> 10,
     color |-> "add", event |-> Null, bornAt |-> 0]

ZeroEntry == [pos |-> 0, size |-> 0, color |-> 0]

\* The record of the callback that ran last: the slot a spawn wrote and
\* whether it found no free slot, the events a scene frame dequeued, the
\* delta of a particle frame, the calls of Math.random() it made
Ran(op) ==
    [op |-> op, target |-> 0, evicted |-> FALSE, taken |-> 0, delta |-> 0,
     draws |-> 0]

\* useState({ amplitude: 0, lowFreq: 0, highFreq: 0, displace: 0, ...,
\* isRevert: 0 }) of InnerScene; of the two colours the emissive one is kept
InitialVisualState ==
    [amplitude |-> 0, lowFreq |-> 0, highFreq |-> 0, displace |-> 0,
     emissiveColor |-> "initial", isRevert |-> 0]

InitSceneOn(lowTier) ==
    /\ particles = << >>
    /\ buffers = << >>
    /\ perfNow = 1
    /\ isLowTier = lowTier
    /\ lastFrame = Ran("none")
    /\ displaceRef = 0
    /\ isRevertRef = 0
    /\ visualState = InitialVisualState
    /\ fed = << >>

InitScene == InitSceneOn(FALSE)

\* The effect that allocates the buffers and the pool (ParticleSystem.tsx:
\* 173-182)
poolEffect ==
    /\ particles = << >>
    /\ particles' = [i \in 1..MaxParticles |-> InitialParticle]
    /\ buffers' = [i \in 1..MaxParticles |-> ZeroEntry]
    /\ lastFrame' = Ran("effect")
    /\ UNCHANGED <<perfNow, isLowTier, frameRefs>>

\* Variant of freeIndex: the last inactive slot.
freeIndex_last(P) ==
    IF \A i \in 1..Len(P) : P[i].active THEN 0
    ELSE CHOOSE i \in 1..Len(P) :
            ~P[i].active /\ \A j \in 1..Len(P) : ~P[j].active => j <= i

\* particles.findIndex((p) => !p.active), counting slots from 1; 0 for -1
freeIndex(P) ==
    IF \A i \in 1..Len(P) : P[i].active THEN 0
    ELSE CHOOSE i \in 1..Len(P) :
            ~P[i].active /\ \A j \in 1..Len(P) : ~P[j].active => i <= j

\* The loop over the slots that finds `oldest` (ParticleSystem.tsx:193-197),
\* after its iterations up to slot n
RECURSIVE oldest(_, _)
oldest(P, n) ==
    IF n = 1 THEN 1
    ELSE LET o == oldest(P, n - 1)
         IN  IF P[n].bornAt < P[o].bornAt THEN n ELSE o

\* Variant of targetIndex: of equally old slots the last is evicted.
targetIndex_lastOfTies(P) ==
    IF freeIndex(P) # 0 THEN freeIndex(P)
    ELSE CHOOSE i \in 1..Len(P) :
            /\ \A j \in 1..Len(P) : P[i].bornAt <= P[j].bornAt
            /\ \A j \in 1..Len(P) : P[j].bornAt = P[i].bornAt => j <= i

\* targetIndex of spawnParticles
targetIndex(P) == IF freeIndex(P) # 0 THEN freeIndex(P) ELSE oldest(P, Len(P))

\* spawnParticles(event) at performance.now() = tnow: the pool after
Spawn(P, ev, tnow) ==
    IF Len(P) = 0 THEN P
    ELSE LET life == lifeFromMagnitude(ev.magnitude, SeedNorm11(ev))
         IN  [P EXCEPT ![targetIndex(P)] =
                [active |-> TRUE, dist |-> 2, life |-> life, maxLife |-> life,
                 color |-> editColor(ev), event |-> Some(ev), bornAt |-> tnow]]

\* spawn(event), the handle of the particle system
\* Variant of spawn: the lifetime is jittered by a draw of Math.random(), as
\* in `life * (0.7 + Math.random() * 0.6)`.
spawn_random(ev) ==
    /\ \E r \in {0, 1} :
          particles' =
             IF Len(particles) = 0 THEN particles
             ELSE [Spawn(particles, ev, perfNow) EXCEPT
                     ![targetIndex(particles)].life = (@ * (70 + r * 60)) \div 100,
                     ![targetIndex(particles)].maxLife = (@ * (70 + r * 60)) \div 100]
    /\ lastFrame' = [Ran("spawn") EXCEPT
                        !.target = IF Len(particles) = 0 THEN 0 ELSE targetIndex(particles),
                        !.evicted = Len(particles) > 0 /\ freeIndex(particles) = 0,
                        !.draws = 1]
    /\ UNCHANGED <<buffers, perfNow, isLowTier, frameRefs>>

spawn(ev) ==
    /\ particles' = Spawn(particles, ev, perfNow)
    /\ lastFrame' = [Ran("spawn") EXCEPT
                        !.target = IF Len(particles) = 0 THEN 0 ELSE targetIndex(particles),
                        !.evicted = Len(particles) > 0 /\ freeIndex(particles) = 0]
    /\ UNCHANGED <<buffers, perfNow, isLowTier, frameRefs>>

\* Variant of FrameSlot: the test of the life is `< 0`.
FrameSlot_lt(p, delta, mv) ==
    IF ~p.active THEN [slot |-> p, entry |-> ZeroEntry]
    ELSE IF Lt0(Aged(p.life, delta)) \/ p.dist * p.dist > 44 * 44
    THEN [slot |-> [p EXCEPT !.life = Aged(@, delta), !.active = FALSE, !.event = Null],
          entry |-> ZeroEntry]
    ELSE [slot |-> [p EXCEPT !.life = Aged(@, delta), !.dist = @ + mv],
          entry |-> [pos |-> p.dist + mv, size |-> 1, color |-> 1]]

\* Variant of FrameSlot: a deactivated slot keeps its event.
FrameSlot_keepEvent(p, delta, mv) ==
    IF ~p.active THEN [slot |-> p, entry |-> ZeroEntry]
    ELSE IF Leq0(Aged(p.life, delta)) \/ p.dist * p.dist > 44 * 44
    THEN [slot |-> [p EXCEPT !.life = Aged(@, delta), !.active = FALSE],
          entry |-> ZeroEntry]
    ELSE [slot |-> [p EXCEPT !.life = Aged(@, delta), !.dist = @ + mv],
          entry |-> [pos |-> p.dist + mv, size |-> 1, color |-> 1]]

\* Variant of FrameSlot: a particle is released only when its life is over.
FrameSlot_noCull(p, delta, mv) ==
    IF ~p.active THEN [slot |-> p, entry |-> ZeroEntry]
    ELSE IF Leq0(Aged(p.life, delta))
    THEN [slot |-> [p EXCEPT !.life = Aged(@, delta), !.active = FALSE, !.event = Null],
          entry |-> ZeroEntry]
    ELSE [slot |-> [p EXCEPT !.life = Aged(@, delta), !.dist = Min(@ + mv, 52)],
          entry |-> [pos |-> p.dist + mv, size |-> 1, color |-> 1]]

\* One iteration of the loop of the frame callback (ParticleSystem.tsx:
\* 300-348): the slot after it and its entries in the buffers
FrameSlot(p, delta, mv) ==
    IF ~p.active THEN [slot |-> p, entry |-> ZeroEntry]
    ELSE IF Leq0(Aged(p.life, delta)) \/ p.dist * p.dist > 44 * 44
    THEN [slot |-> [p EXCEPT !.life = Aged(@, delta), !.active = FALSE, !.event = Null],
          entry |-> ZeroEntry]
    ELSE [slot |-> [p EXCEPT !.life = Aged(@, delta), !.dist = @ + mv],
          entry |-> [pos |-> p.dist + mv, size |-> 1, color |-> 1]]

\* Variant of particleFrame: only the entries of the particles drawn are
\* written.
particleFrame_keepEntries(delta, mv) ==
    /\ particles # << >>
    /\ particles' = [i \in 1..Len(particles) |-> FrameSlot(particles[i], delta, mv).slot]
    /\ buffers' = [i \in 1..Len(particles) |->
                      IF FrameSlot(particles[i], delta, mv).slot.active
                      THEN FrameSlot(particles[i], delta, mv).entry
                      ELSE buffers[i]]
    /\ lastFrame' = [Ran("particles") EXCEPT !.delta = delta]
    /\ UNCHANGED <<perfNow, isLowTier, frameRefs>>

\* The frame callback of the particle system, for the elapsed time delta
particleFrame(delta, mv) ==
    /\ particles # << >>
    /\ particles' = [i \in 1..Len(particles) |-> FrameSlot(particles[i], delta, mv).slot]
    /\ buffers' = [i \in 1..Len(particles) |-> FrameSlot(particles[i], delta, mv).entry]
    /\ lastFrame' = [Ran("particles") EXCEPT !.delta = delta]
    /\ UNCHANGED <<perfNow, isLowTier, frameRefs>>

\* getInfoFromIndex(index, nativeEvent): the event of the info it returns,
\* Null when it returns null; index counts the slots from 1
getInfoFromIndex(P, index) ==
    IF index \notin 1..Len(P) THEN Null
    ELSE IF ~P[index].active \/ P[index].event = Null THEN Null
    ELSE P[index].event

\* performance.now() advances
PerfTick ==
    /\ perfNow < 1 + MaxPerfTicks
    /\ perfNow' = perfNow + 1
    /\ lastFrame' = Ran("tick")
    /\ UNCHANGED <<particles, buffers, isLowTier, frameRefs>>

\* Frame deltas, in tenths of a second, and displacements
Deltas == {7, 14}
Moves  == {0, 50}

\* EvTiny with the optional links of a canonical event
EvTinyLinked ==
    [id |-> EvTiny.id, title |-> EvTiny.title, sizeDelta |-> EvTiny.sizeDelta,
     isBot |-> EvTiny.isBot, isRevert |-> EvTiny.isRevert,
     timestamp |-> EvTiny.timestamp, magnitude |-> EvTiny.magnitude,
     pageUrl |-> "https://en.wikipedia.org/wiki/Foo"]

\* The proxy's failure message as spawn reads it once it was enqueued and
\* dequeued: a field that is missing reads as undefined, which is falsy, is
\* not greater than 0 and is none of the magnitudes
ErrorAsEvent ==
    [error |-> FetchError.error, id |-> "undefined", title |-> "undefined",
     timestamp |-> 0, sizeDelta |-> 0, isBot |-> FALSE, isRevert |-> FALSE,
     magnitude |-> "undefined"]

\* Events handed to spawn
SceneEvents == {EvTiny, EvSmall, EvTinyLinked}

----------------------------------------------------------------------------
(* src/components/Scene.tsx: the frame callback of InnerScene *)
(* The levels read from the analysers of the engine are inputs of the     *)
(* frame.  displaceRef, isRevertRef and the displace and isRevert fields  *)
(* of the visual state are in hundredths, the frame delta in tenths of a  *)
(* second.  driftRef is read by the camera only and is left out.          *)

\* getDisplace, in hundredths
getDisplace(magnitude) ==
    CASE magnitude = "TINY"   -> 5
      [] magnitude = "SMALL"  -> 20
      [] magnitude = "MEDIUM" -> 55
      [] magnitude = "LARGE"  -> 100

getEmissiveColor(ev) ==
    IF ev.isRevert THEN "magenta"
    ELSE IF ev.isBot THEN "teal"
    ELSE IF ev.sizeDelta > 0 THEN "white-cyan"
    ELSE "deep blue"

\* The rest of the body of the drain loop, after triggerEdit and spawn: the
\* refs and the object given to setVisualState
AfterSpawn(st, ev) ==
    LET newDisplace == IF st.displace >= getDisplace(ev.magnitude)
                       THEN st.displace ELSE getDisplace(ev.magnitude)
        newRevert == IF ev.isRevert \/ ev.magnitude = "LARGE"
                     THEN (IF ev.isRevert THEN 100 ELSE 20)
                     ELSE st.revert
    IN  [st EXCEPT !.displace = newDisplace,
                   !.revert = newRevert,
                   !.vs = [amplitude |-> st.levels.amplitude,
                           lowFreq |-> st.levels.lowFreq,
                           highFreq |-> st.levels.highFreq,
                           displace |-> newDisplace,
                           emissiveColor |-> getEmissiveColor(ev),
                           isRevert |-> newRevert]]

\* Variant of Calls: the particle is spawned before the tone is triggered.
Calls_spawnFirst(ev) == << [fn |-> "spawn", ev |-> ev], [fn |-> "triggerEdit", ev |-> ev] >>

\* The calls of one iteration of the drain loop
Calls(ev) == << [fn |-> "triggerEdit", ev |-> ev], [fn |-> "spawn", ev |-> ev] >>

\* Variant of maxEvents: one more event per frame.
maxEvents_more(lowTier) == IF lowTier THEN 2 ELSE 3

\* const maxEvents = isLowTier ? 1 : 2
maxEvents(lowTier) == IF lowTier THEN 1 ELSE 2

\* Variant of ReadLevels: only the amplitude is passed on.
ReadLevels_amplitude(lv) == [amplitude |-> lv.amplitude]

\* { amplitude: amp, lowFreq: low, highFreq: high }
ReadLevels(lv) ==
    [amplitude |-> lv.amplitude, lowFreq |-> lv.lowFreq, highFreq |-> lv.highFreq]

\* Variant of DrainStep: the event is read and left in the queue.
DrainStep_peek(st, d, tnow, born) ==
    LET ev == Head(st.queue)
        r  == TriggerResult(st.eng, ev, d, tnow)
    IN  AfterSpawn([st EXCEPT !.eng = r.eng,
                              !.notes = @ \o r.notes,
                              !.accepted = @ \/ r.accepted,
                              !.pool = Spawn(@, ev, born),
                              !.calls = @ \o Calls(ev),
                              !.taken = Append(@, ev)], ev)

\* The body of the drain loop for a non-empty queue: dequeue, triggerEdit,
\* spawn
DrainStep(st, d, tnow, born) ==
    LET ev == Head(st.queue)
        r  == TriggerResult(st.eng, ev, d, tnow)
    IN  AfterSpawn([st EXCEPT !.queue = Tail(@),
                              !.eng = r.eng,
                              !.notes = @ \o r.notes,
                              !.accepted = @ \/ r.accepted,
                              !.pool = Spawn(@, ev, born),
                              !.calls = @ \o Calls(ev),
                              !.taken = Append(@, ev)], ev)

\* The drain loop from its iteration i on; the state after an iteration is
\* bound to a name, so that it is computed once
RECURSIVE DrainLoop(_, _, _, _, _, _)
DrainLoop(st, i, max, d, tnow, born) ==
    IF i >= max THEN st
    ELSE IF Len(st.queue) = 0 THEN [st EXCEPT !.sawEmpty = TRUE]
    ELSE CHOOSE r \in {DrainLoop(nxt, i + 1, max, d, tnow, born) :
                          nxt \in {DrainStep(st, d, tnow, born)}} : TRUE

\* x - y, and 0 when that is negative: Math.max(0, x - y)
Decay(x, y) == IF x - y > 0 THEN x - y ELSE 0

\* The frame callback of InnerScene, on the engine it obtained when it
\* mounted, for the elapsed time delta
sceneFrame(lv, d, delta) ==
    /\ engine = 1
    /\ \E st \in {DrainLoop([queue |-> queue, eng |-> engines[1], notes |-> << >>,
                              accepted |-> FALSE, pool |-> particles,
                              taken |-> << >>, sawEmpty |-> FALSE,
                              levels |-> lv, calls |-> << >>,
                              displace |-> Decay(displaceRef, delta * 8),
                              revert |-> Decay(isRevertRef, delta * 10),
                              vs |-> visualState],
                             0, maxEvents(isLowTier), d, toneNow, perfNow)} :
           /\ audio' = MergeAudio(audio, ReadLevels(lv))
           /\ queue' = st.queue
           /\ returned' = returned \o st.taken
           /\ lastOp' = "frame"
           /\ lastResult' = IF st.sawEmpty \/ st.taken = << >> THEN Undefined
                             ELSE Some(st.taken[Len(st.taken)])
           /\ engines' = [engines EXCEPT ![1] = st.eng]
           /\ notes' = st.notes
           /\ lastCall' = Call("frame", 1, st.accepted)
           /\ particles' = st.pool
           /\ lastFrame' = [Ran("scene") EXCEPT !.taken = Len(st.taken)]
           /\ displaceRef' = st.displace
           /\ isRevertRef' = st.revert
           /\ visualState' = st.vs
           /\ fed' = fed \o st.calls
    /\ UNCHANGED <<history, totalCount, overlayVisible, connected, introFinished,
                   aboutVisible, enqueued>>
    /\ UNCHANGED <<engine, timers, pending, toneNow, audioReady>>
    /\ UNCHANGED <<buffers, perfNow, isLowTier>>

\* What the analysers can read in a frame
FrameLevels ==
    {[amplitude |-> 0, lowFreq |-> 0, highFreq |-> 0],
     [amplitude |-> 1, lowFreq |-> 0, highFreq |-> 1]}

\* Frame deltas of the render loop, in tenths of a second
LongDeltas == {30, 60}

----------------------------------------------------------------------------
(* src/components/Scene.tsx: the SSE effect of Scene *)

(* An EventSource is kept as its readyState: "connecting", "open" or      *)
(* "closed"; a closed EventSource dispatches no event.  The handlers of   *)
(* every source read and write the variables es and retryTimeout of the   *)
(* effect run that created them.                                          *)

\* The delay of setTimeout(connect, 3000)
RETRY_MS == 3000

InitClient ==
    /\ sources = << >>
    /\ es = 0
    /\ retries = << >>
    /\ retryTimeout = 0
    /\ effect = "none"
    /\ cnow = 0

\* es?.close()
Close(S, k) == IF k = 0 THEN S ELSE [S EXCEPT ![k] = "closed"]

\* clearTimeout(id): a timer that has fired, or none, is left as it is
clearTimeout(T, id) ==
    IF id # 0 /\ T[id].state = "pending" THEN [T EXCEPT ![id].state = "cleared"]
    ELSE T

\* The data of the messages delivered to es.onmessage
ClientData == {JSONstringify(e) : e \in Events} \cup {<< "text", "{" >>}

\* The effect runs: connect() (Scene.tsx:282-303)
sseEffect ==
    /\ effect = "none"
    /\ effect' = "run"
    /\ sources' = Append(sources, "connecting")
    /\ es' = Len(sources) + 1
    /\ UNCHANGED <<retries, retryTimeout, cnow>>
    /\ UNCHANGED <<storeVars, callVars>>

\* The source k opens: its onopen handler (Scene.tsx:285)
esOnopen(k) ==
    /\ sources[k] = "connecting"
    /\ sources' = [sources EXCEPT ![k] = "open"]
    /\ setConnected(TRUE)
    /\ UNCHANGED <<es, retries, retryTimeout, effect, cnow>>

\* A message arrives on the source k: its onmessage handler (Scene.tsx:
\* 287-294); JSON.parse throws on data that is not JSON
esOnmessage(k, data) ==
    /\ sources[k] = "open"
    /\ IF data[1] = "json"
       THEN Len(enqueued) < MaxClientMsgs /\ enqueue(JSONparse(data))
       ELSE UNCHANGED <<storeVars, callVars>>
    /\ UNCHANGED clientVars

\* Variant of esOnerror: the handler does not close the source, which the
\* browser leaves connecting again.
esOnerror_noClose(k) ==
    /\ sources[k] \in {"connecting", "open"}
    /\ setConnected(FALSE)
    /\ sources' = [sources EXCEPT ![k] = "connecting"]
    /\ retries' = Append(retries, [state |-> "pending", setAt |-> cnow])
    /\ retryTimeout' = Len(retries) + 1
    /\ UNCHANGED <<es, effect, cnow>>

\* The source k fails: its onerror handler (Scene.tsx:296-300).  The handler
\* closes the source that es refers to; the browser has left the source k
\* connecting again or closed.
esOnerror(k) ==
    /\ sources[k] \in {"connecting", "open"}
    /\ setConnected(FALSE)
    /\ \E left \in {"connecting", "closed"} :
          sources' = Close([sources EXCEPT ![k] = left], es)
    /\ retries' = Append(retries, [state |-> "pending", setAt |-> cnow])
    /\ retryTimeout' = Len(retries) + 1
    /\ UNCHANGED <<es, effect, cnow>>

\* The timer t fires: connect()
RetryFires(t) ==
    /\ retries[t].state = "pending"
    /\ cnow - retries[t].setAt >= RETRY_MS
    /\ Len(sources) < MaxSources
    /\ retries' = [retries EXCEPT ![t].state = "fired"]
    /\ sources' = Append(sources, "connecting")
    /\ es' = Len(sources) + 1
    /\ UNCHANGED <<retryTimeout, effect, cnow>>
    /\ UNCHANGED <<storeVars, callVars>>

\* The cleanup of the effect (Scene.tsx:305-309)
sseCleanup ==
    /\ effect = "run"
    /\ effect' = "cleaned"
    /\ sources' = Close(sources, es)
    /\ retries' = clearTimeout(retries, retryTimeout)
    /\ setConnected(FALSE)
    /\ UNCHANGED <<es, retryTimeout, cnow>>

\* The browser's clock advances
ClientTick ==
    /\ cnow < MaxClientTicks * ClientTickMs
    /\ cnow' = cnow + ClientTickMs
    /\ UNCHANGED <<sources, es, retries, retryTimeout, effect>>
    /\ UNCHANGED <<storeVars, callVars>>

----------------------------------------------------------------------------
(* src/unnamed/part_011: the particle pool with ambient motes *)

(* The version of the particle system that keeps ambient motes in the    *)
(* first slots of the pool.  The pool has 10000 or 50000 slots in the      *)
(* source, 350 or 900 of them motes, and an event spawns 3 to 70          *)
(* particles; pool, motes and counts are scaled down.  Lifetimes and frame *)
(* deltas are in tenths of a second; of a position only the distance from  *)
(* the origin is kept, and the displacement of a particle in a frame is an  *)
(* input of the frame.  The orbit of a mote changes only its position.     *)

\* The value Infinity of life and maxLife
Infinity == 1000000

\* x - d in floating point, for a life x
Less(x, d) == IF x = Infinity THEN Infinity ELSE x - d

\* const spawnStart = moteCount
spawnStart == MaxMotes

\* magnitudeCount, scaled: 3, 10, 28 and 70 in the source
magnitudeCount(magnitude) ==
    CASE magnitude = "TINY"   -> 1
      [] magnitude = "SMALL"  -> 2
      [] magnitude = "MEDIUM" -> 3
      [] magnitude = "LARGE"  -> 4

\* magnitudeLife, in tenths of a second
magnitudeLife(magnitude) ==
    CASE magnitude = "TINY"   -> 20
      [] magnitude = "SMALL"  -> 35
      [] magnitude = "MEDIUM" -> 55
      [] magnitude = "LARGE"  -> 80

\* createInitialParticles(maxParticles, moteCount); the slots count from 1
createInitialParticles(maxParticles, moteCount) ==
    [i \in 1..maxParticles |->
        IF i <= moteCount
        THEN [active |-> TRUE, life |-> Infinity, maxLife |-> Infinity,
              type |-> "mote", dist |-> 4]
        ELSE [active |-> FALSE, life |-> 0, maxLife |-> 10,
              type |-> "wisp", dist |-> 0]]

InitMotes ==
    /\ mparticles = << >>
    /\ mlast = [op |-> "none", spawned |-> 0]

\* The effect that allocates the pool (part_011:205-214)
motePoolEffect ==
    /\ mparticles = << >>
    /\ mparticles' = createInitialParticles(MaxMoteParticles, MaxMotes)
    /\ mlast' = [op |-> "effect", spawned |-> 0]

\* The slots that the loop of spawnParticles writes: from spawnStart on, the
\* first `count` slots that are not active
SpawnTargets(P, count) ==
    LET free == {i \in (spawnStart + 1)..Len(P) : ~P[i].active}
    IN  {i \in free : Cardinality({j \in free : j < i}) < count}

\* Variant of SpawnSlots: when no slot is free the first slot of the pool is
\* overwritten.
SpawnSlots_evict(P, ev, draw, streak) ==
    LET targets == SpawnTargets(P, magnitudeCount(ev.magnitude))
        life(i) == (magnitudeLife(ev.magnitude) * (70 + draw[i] * 60)) \div 100
    IN  [i \in 1..Len(P) |->
            IF i \in targets
            THEN [active |-> TRUE, life |-> life(i), maxLife |-> life(i),
                  type |-> IF streak[i] THEN "streak" ELSE "wisp", dist |-> 2]
            ELSE IF targets = {} /\ i = 1
            THEN [active |-> TRUE, life |-> magnitudeLife(ev.magnitude),
                  maxLife |-> magnitudeLife(ev.magnitude), type |-> "wisp",
                  dist |-> 2]
            ELSE P[i]]

\* The pool after spawnParticles(ev), where draw[i] and streak[i] are the
\* outcomes of Math.random() for the life and the type of slot i
SpawnSlots(P, ev, draw, streak) ==
    LET targets == SpawnTargets(P, magnitudeCount(ev.magnitude))
        life(i) == (magnitudeLife(ev.magnitude) * (70 + draw[i] * 60)) \div 100
    IN  [i \in 1..Len(P) |->
            IF i \in targets
            THEN [active |-> TRUE, life |-> life(i), maxLife |-> life(i),
                  type |-> IF streak[i] THEN "streak" ELSE "wisp", dist |-> 2]
            ELSE P[i]]

\* spawnParticles(ev)
spawnParticles(ev) ==
    /\ \E draw \in [SpawnTargets(mparticles, magnitudeCount(ev.magnitude)) -> {0, 1}],
          streak \in [SpawnTargets(mparticles, magnitudeCount(ev.magnitude)) -> BOOLEAN] :
          mparticles' = SpawnSlots(mparticles, ev, draw, streak)
    /\ mlast' = [op |-> "spawn",
                 spawned |-> Cardinality(SpawnTargets(mparticles,
                                            magnitudeCount(ev.magnitude)))]

\* The body of the frame loop for one slot
MoteFrameSlot(p, delta, mv) ==
    IF p.type = "mote" THEN p
    ELSE IF ~p.active THEN p
    ELSE IF p.life - delta <= 0
    THEN [p EXCEPT !.life = Less(@, delta), !.active = FALSE]
    ELSE IF (p.dist + mv) * (p.dist + mv) > 35 * 35
    THEN [p EXCEPT !.life = Less(@, delta), !.dist = @ + mv, !.active = FALSE]
    ELSE [p EXCEPT !.life = Less(@, delta), !.dist = @ + mv]

\* The frame callback, for the elapsed time delta
moteFrame(delta, mv) ==
    /\ mparticles # << >>
    /\ mparticles' = [i \in 1..Len(mparticles) |->
                          MoteFrameSlot(mparticles[i], delta, mv)]
    /\ mlast' = [op |-> "frame", spawned |-> 0]

\* Frame deltas, in tenths of a second, displacements, and events handed to
\* spawn
MoteDeltas == {12, 24}
MoteMoves  == {0, 20}
MoteEvents == {EvTiny, EvSmall}

----------------------------------------------------------------------------
(* Specifications *)

Init ==
    /\ InitStore /\ InitCalls /\ InitClassifyIdle /\ InitNormalizeIdle
    /\ InitAudio /\ InitPipe /\ InitScene /\ InitClient /\ InitMotes

Next ==
    \/ \E e \in Events : enqueue(e) /\ UNCHANGED <<clsVars, normVars, audioVars, pipeVars, sceneVars, clientVars, moteVars>>
    \/ dequeue /\ UNCHANGED <<clsVars, normVars, audioVars, pipeVars, sceneVars, clientVars, moteVars>>
    \/ \E p \in PartialAudio : setAudio(p) /\ UNCHANGED <<clsVars, normVars, audioVars, pipeVars, sceneVars, clientVars, moteVars>>
    \/ toggleOverlay /\ UNCHANGED <<clsVars, normVars, audioVars, pipeVars, sceneVars, clientVars, moteVars>>
    \/ \E v \in BOOLEAN : setConnected(v) /\ UNCHANGED <<clsVars, normVars, audioVars, pipeVars, sceneVars, clientVars, moteVars>>
    \/ \E v \in BOOLEAN : setIntroFinished(v) /\ UNCHANGED <<clsVars, normVars, audioVars, pipeVars, sceneVars, clientVars, moteVars>>
    \/ toggleAbout /\ UNCHANGED <<clsVars, normVars, audioVars, pipeVars, sceneVars, clientVars, moteVars>>
    \/ \E v \in BOOLEAN : setAboutVisible(v) /\ UNCHANGED <<clsVars, normVars, audioVars, pipeVars, sceneVars, clientVars, moteVars>>

Spec == Init /\ [][Next]_vars

InitC ==
    /\ InitStore /\ InitCalls /\ InitClassify /\ InitNormalizeIdle
    /\ InitAudio /\ InitPipe /\ InitScene /\ InitClient /\ InitMotes
NextC == Classify
SpecClassify == InitC /\ [][NextC]_vars

InitN ==
    /\ InitStore /\ InitCalls /\ InitClassifyIdle /\ InitNormalize
    /\ InitAudio /\ InitPipe /\ InitScene /\ InitClient /\ InitMotes
NextN == Normalize
SpecNormalize == InitN /\ [][NextN]_vars

rest == <<storeVars, callVars, clsVars, normVars, pipeVars, sceneVars, clientVars, moteVars>>

\* The life of the engine that Scene obtains when it mounts (Scene.tsx:126):
\* init, the outcomes of Tone.start(), dispose, the drone timer and triggers,
\* at one reading of the audio clock
InitE ==
    /\ InitStore /\ InitCalls /\ InitClassifyIdle /\ InitNormalizeIdle
    /\ InitPipe /\ InitScene /\ InitClient /\ InitMotes
    /\ engine = 1
    /\ engines = << NewEngine >>
    /\ timers = << << >> >>
    /\ pending = << >>
    /\ toneNow = 3 * TickMs
    /\ audioReady = FALSE
    /\ notes = << >>
    /\ lastCall = Call("getAudioEngine", 1, TRUE)
NextE ==
    \/ engine # 0 /\ initAudio /\ UNCHANGED rest
    \/ init(1) /\ UNCHANGED rest
    \/ \E k \in 1..Len(pending) : ToneStartResolve(k) /\ UNCHANGED rest
    \/ \E k \in 1..Len(pending) : ToneStartResolveThrows(k) /\ UNCHANGED rest
    \/ \E k \in 1..Len(pending) : ToneStartReject(k) /\ UNCHANGED rest
    \/ dispose(1) /\ UNCHANGED rest
    \/ disposeThrows(1) /\ UNCHANGED rest
    \/ \E k \in 1..Len(timers[1]) : DroneFire(1, k) /\ UNCHANGED rest
    \/ triggerEdit(1, EvTiny, DrawMid) /\ UNCHANGED rest
    \/ triggerEditThrows(1, EvTiny, DrawMid) /\ UNCHANGED rest
SpecEngine == InitE /\ [][NextE]_vars

\* The registry of engines: getAudioEngine, Scene's initAudio and dispose
InitA ==
    /\ InitStore /\ InitCalls /\ InitClassifyIdle /\ InitNormalizeIdle
    /\ InitAudio /\ InitPipe /\ InitScene /\ InitClient /\ InitMotes
NextA ==
    \/ getAudioEngine /\ UNCHANGED rest
    \/ initAudio /\ UNCHANGED rest
    \/ \E k \in 1..Len(pending) : ToneStartResolve(k) /\ UNCHANGED rest
    \/ \E k \in 1..Len(pending) : ToneStartResolveThrows(k) /\ UNCHANGED rest
    \/ \E e \in EngineIds : dispose(e) /\ UNCHANGED rest
    \/ \E e \in EngineIds : disposeThrows(e) /\ UNCHANGED rest
SpecAudio == InitA /\ [][NextA]_vars

\* The scheduler of one engine that is never disposed
NextS ==
    \/ getAudioEngine /\ UNCHANGED rest
    \/ \E e \in EngineIds : init(e) /\ UNCHANGED rest
    \/ \E k \in 1..Len(pending) : ToneStartResolve(k) /\ UNCHANGED rest
    \/ \E e \in EngineIds, ev \in AudioEvents, d \in Draws :
          triggerEdit(e, ev, d) /\ UNCHANGED rest
    \/ Tick /\ UNCHANGED rest
InitS ==
    /\ InitStore /\ InitCalls /\ InitClassifyIdle /\ InitNormalizeIdle
    /\ InitAudioAt(3 * TickMs) /\ InitPipe /\ InitScene /\ InitClient /\ InitMotes
SpecSched == InitS /\ [][NextS]_vars

\* The particle pool: spawn calls and frames
beside == <<storeVars, callVars, clsVars, normVars, audioVars, pipeVars,
           clientVars, moteVars>>
InitPS ==
    /\ InitStore /\ InitCalls /\ InitClassifyIdle /\ InitNormalizeIdle
    /\ InitAudio /\ InitPipe /\ InitScene /\ InitClient /\ InitMotes
NextPS ==
    \/ poolEffect /\ UNCHANGED beside
    \/ \E ev \in SceneEvents : spawn(ev) /\ UNCHANGED beside
    \/ \E delta \in Deltas, mv \in Moves : particleFrame(delta, mv) /\ UNCHANGED beside
    \/ PerfTick /\ UNCHANGED beside
SpecParticles == InitPS /\ [][NextPS]_vars

\* The release of the particles: spawn calls at any time, and frames.  The
\* displacement of the particles in a frame is an input of the model; in the
\* source acceleration.y is at least 0.03, the swirl is horizontal and the
\* drag is a factor below 1 (ParticleSystem.tsx:233-237, 328-334), so the
\* height of a particle grows without bound while it is active: frames in
\* which the active particles move away keep occurring.
DriftFrameStep ==
    \E delta \in Deltas, mv \in Moves \ {0} : particleFrame(delta, mv) /\ UNCHANGED beside
StillFrameStep ==
    \E delta \in Deltas : particleFrame(delta, 0) /\ UNCHANGED beside
ReleaseEvents == {EvTiny, ErrorAsEvent}
NextR ==
    \/ poolEffect /\ UNCHANGED beside
    \/ \E ev \in ReleaseEvents : spawn(ev) /\ UNCHANGED beside
    \/ DriftFrameStep
    \/ StillFrameStep
SpecRelease == InitPS /\ [][NextR]_vars /\ WF_vars(DriftFrameStep)

\* A frame of InnerScene and a frame of the particle system, in the render
\* loop
SceneFrameStep ==
    \E lv \in FrameLevels, delta \in LongDeltas :
        sceneFrame(lv, DrawMid, delta) /\ UNCHANGED <<clsVars, normVars, pipeVars, clientVars, moteVars>>
ParticleFrameStep ==
    \E delta \in LongDeltas : particleFrame(delta, 0) /\ UNCHANGED beside

\* The render loop: events arrive in the store, the frame callback of
\* InnerScene drains them into the engine and the pool, the frame callback of
\* the particle system ages the particles.  The engine is the one InnerScene
\* obtained when it mounted; the user has started the audio or has not.
InitF ==
    /\ InitStore /\ InitCalls /\ InitClassifyIdle /\ InitNormalizeIdle /\ InitPipe
    /\ InitClient /\ InitMotes
    /\ \E lowTier \in BOOLEAN : InitSceneOn(lowTier)
    /\ engine = 1
    /\ \E running \in BOOLEAN :
          LET r == IF running
                   THEN startDrone(<< [NewEngine EXCEPT !.initialized = TRUE,
                                                        !.started = TRUE] >>,
                                   << << >> >>, 1)
                   ELSE [engines |-> << NewEngine >>, timers |-> << << >> >>]
          IN  /\ engines = r.engines
              /\ timers = r.timers
              /\ audioReady = running
    /\ pending = << >>
    /\ toneNow = 4 * TickMs
    /\ notes = << >>
    /\ lastCall = Call("getAudioEngine", 1, TRUE)
NextF ==
    \/ \E e \in Events :
          /\ Len(enqueued) < MaxFrameEnq
          /\ enqueue(e)
          /\ UNCHANGED <<clsVars, normVars, audioVars, pipeVars, sceneVars, clientVars, moteVars>>
    \/ poolEffect /\ UNCHANGED beside
    \/ SceneFrameStep
    \/ ParticleFrameStep
SpecFrame == InitF /\ [][NextF]_vars

\* The render loop keeps calling both frame callbacks (requestAnimationFrame
\* while the canvas is mounted)
SpecFrameFair ==
    /\ InitF /\ [][NextF]_vars
    /\ WF_vars(SceneFrameStep)
    /\ WF_vars(ParticleFrameStep)

\* The drain of the queue: more events arrive than the queue holds, the
\* frame callback of InnerScene drains them, and the user starts the audio
\* at some time or never
InitD ==
    /\ InitStore /\ InitCalls /\ InitClassifyIdle /\ InitNormalizeIdle /\ InitPipe
    /\ InitClient /\ InitMotes
    /\ \E lowTier \in BOOLEAN : InitSceneOn(lowTier)
    /\ engine = 1
    /\ engines = << NewEngine >>
    /\ timers = << << >> >>
    /\ audioReady = FALSE
    /\ pending = << >>
    /\ toneNow = 4 * TickMs
    /\ notes = << >>
    /\ lastCall = Call("getAudioEngine", 1, TRUE)
\* A frame of InnerScene while the analysers read silence
QuietFrameStep ==
    \E delta \in LongDeltas :
        sceneFrame([amplitude |-> 0, lowFreq |-> 0, highFreq |-> 0], DrawMid, delta)
        /\ UNCHANGED <<clsVars, normVars, pipeVars, clientVars, moteVars>>
NextD ==
    \/ \E e \in Events :
          /\ Len(enqueued) < MaxDrainEnq
          /\ enqueue(e)
          /\ UNCHANGED <<clsVars, normVars, audioVars, pipeVars, sceneVars, clientVars, moteVars>>
    \/ poolEffect /\ UNCHANGED beside
    \/ initAudio /\ UNCHANGED rest
    \/ \E k \in 1..Len(pending) : ToneStartResolve(k) /\ UNCHANGED rest
    \/ QuietFrameStep
SpecDrain == InitD /\ [][NextD]_vars

allButMotes == <<storeVars, callVars, clsVars, normVars, audioVars, pipeVars,
                 sceneVars, clientVars>>

\* The SSE effect of Scene: one run of the effect and its cleanup
apart == <<clsVars, normVars, audioVars, pipeVars, sceneVars, moteVars>>
InitCl ==
    /\ InitStore /\ InitCalls /\ InitClassifyIdle /\ InitNormalizeIdle
    /\ InitAudio /\ InitPipe /\ InitScene /\ InitClient /\ InitMotes
NextCl ==
    \/ sseEffect /\ UNCHANGED apart
    \/ \E k \in 1..Len(sources) : esOnopen(k) /\ UNCHANGED apart
    \/ \E k \in 1..Len(sources), data \in ClientData :
          esOnmessage(k, data) /\ UNCHANGED apart
    \/ \E k \in 1..Len(sources) : esOnerror(k) /\ UNCHANGED apart
    \/ \E t \in 1..Len(retries) : RetryFires(t) /\ UNCHANGED apart
    \/ sseCleanup /\ UNCHANGED apart
    \/ ClientTick /\ UNCHANGED apart
SpecClient == InitCl /\ [][NextCl]_vars

\* The pool with ambient motes: spawn calls and frames
InitMo ==
    /\ InitStore /\ InitCalls /\ InitClassifyIdle /\ InitNormalizeIdle
    /\ InitAudio /\ InitPipe /\ InitScene /\ InitClient /\ InitMotes
NextMo ==
    \/ motePoolEffect /\ UNCHANGED allButMotes
    \/ \E ev \in MoteEvents : spawnParticles(ev) /\ UNCHANGED allButMotes
    \/ \E delta \in MoteDeltas, mv \in MoteMoves :
          moteFrame(delta, mv) /\ UNCHANGED allButMotes
SpecMotes == InitMo /\ [][NextMo]_vars

\* The event stream, from the upstream lines to the store
others == <<clsVars, normVars, audioVars, sceneVars, clientVars, moteVars>>
InitP ==
    /\ InitStore /\ InitCalls /\ InitClassifyIdle /\ InitNormalizeIdle
    /\ InitAudio /\ InitPipe /\ InitScene /\ InitClient /\ InitMotes
NextP ==
    \/ connect /\ UNCHANGED others
    \/ onopen /\ UNCHANGED others
    \/ FetchRejects /\ UNCHANGED others
    \/ FetchNoBody /\ UNCHANGED others
    \/ FetchResolves /\ UNCHANGED others
    \/ \E l \in UpstreamLines : ReadLine(l) /\ UNCHANGED others
    \/ ReadDone /\ UNCHANGED others
    \/ PipeTick /\ UNCHANGED others
    \/ onmessage /\ UNCHANGED others
    \/ onerror /\ UNCHANGED others
SpecPipe == InitP /\ [][NextP]_vars

----------------------------------------------------------------------------
(* Properties of the store *)

\* s is a subsequence of t: the elements of s occur in t in the same order,
\* each at a position of its own.
RECURSIVE IsSubseq(_, _)
IsSubseq(s, t) ==
    IF s = <<>> THEN TRUE
    ELSE IF t = <<>> THEN FALSE
    ELSE IF Head(s) = Head(t) THEN IsSubseq(Tail(s), Tail(t))
    ELSE IsSubseq(s, Tail(t))

\* C1: in every reachable state the queue holds at most MAX_QUEUE events.
C1_QueueBounded == Len(queue) <= MAX_QUEUE

\* An overflowing burst with a consumer in between: more events enqueued than
\* the capacity, some dequeued, and the queue full.
C1_Witness ==
    /\ Len(enqueued) > MAX_QUEUE + 1
    /\ Len(returned) > 0
    /\ Len(queue) = MAX_QUEUE

\* C2: drop-oldest law. Every enqueue step succeeds with the new event last;
\* on a full queue the length stays MAX_QUEUE and the new queue is the old one
\* without its first element followed by the new event; and as long as nothing
\* has been dequeued the queue holds the most recent MAX_QUEUE events enqueued.
C2_DropOldest ==
    [][ Len(enqueued') = Len(enqueued) + 1 =>
          LET e == enqueued'[Len(enqueued')] IN
          /\ Len(queue) = MAX_QUEUE =>
                /\ Len(queue') = MAX_QUEUE
                /\ queue' = Append(Tail(queue), e)
          /\ Len(queue) < MAX_QUEUE => queue' = Append(queue, e)
          /\ returned' = <<>> => queue' = LastN(enqueued', MAX_QUEUE)
      ]_vars

\* MAX_QUEUE + 1 enqueues and no dequeue: the first event has been evicted.
C2_Witness ==
    /\ Len(enqueued) = MAX_QUEUE + 1
    /\ returned = <<>>
    /\ lastOp = "enqueue"
    /\ queue = SubSeq(enqueued, 2, MAX_QUEUE + 1)
    /\ queue[1] # queue[2]

\* C3: a dequeue step on a non-empty queue returns the first element and
\* leaves the rest of the queue in order; on an empty queue it returns the
\* empty indicator; in both cases nothing else in the store changes.
C3_Dequeue ==
    [][ lastOp' = "dequeue" =>
          /\ IF queue = <<>>
             THEN lastResult' = Undefined /\ queue' = queue
             ELSE lastResult' = Some(Head(queue)) /\ queue' = Tail(queue)
          /\ <<history, totalCount, audio, overlayVisible, connected,
               introFinished, aboutVisible>>'
               = <<history, totalCount, audio, overlayVisible, connected,
                   introFinished, aboutVisible>>
      ]_vars

\* Both cases have happened: the last dequeue found the queue empty after
\* earlier dequeues had returned two different events.
C3_Witness ==
    /\ lastOp = "dequeue"
    /\ lastResult = Undefined
    /\ Len(returned) >= 2
    /\ returned[1] # returned[2]

\* C4: FIFO among retained events. The events returned so far are a
\* subsequence of the events enqueued before those still queued, and the
\* queue is exactly the last Len(queue) events enqueued, duplicates included.
C4_Fifo ==
    /\ Len(queue) <= Len(enqueued)
    /\ queue = LastN(enqueued, Len(queue))
    /\ IsSubseq(returned, SubSeq(enqueued, 1, Len(enqueued) - Len(queue)))

\* An event was dropped (fewer returned and queued than enqueued), an event
\* was returned, and two equal events are queued one after the other.
C4_Witness ==
    /\ Len(returned) >= 1
    /\ Len(returned) + Len(queue) < Len(enqueued)
    /\ Len(queue) >= 2
    /\ queue[1] = queue[2]

\* C5: totalCount is the number of enqueue calls made so far.
C5_TotalCount == totalCount = Len(enqueued)

\* Enqueues past both capacities, with dequeues, a setAudio and flag setters
\* in between.
C5_Witness ==
    /\ totalCount = MaxEnq
    /\ totalCount > MAX_HISTORY
    /\ Len(returned) > 0
    /\ audio.amplitude = 1
    /\ connected /\ aboutVisible

\* C6: the history ring never exceeds MAX_HISTORY and holds the most recent
\* min(totalCount, MAX_HISTORY) events enqueued, whatever has been dequeued.
C6_History ==
    /\ Len(history) <= MAX_HISTORY
    /\ history = LastN(enqueued, Min(totalCount, MAX_HISTORY))

\* The ring has evicted, and the queue has been drained by dequeues.
C6_Witness ==
    /\ totalCount > MAX_HISTORY
    /\ Len(history) = MAX_HISTORY
    /\ lastOp = "dequeue"
    /\ queue = <<>>
    /\ Len(returned) >= MAX_QUEUE

----------------------------------------------------------------------------
(* Properties of classifyMagnitude and normalizeEvent *)

\* TINY < SMALL < MEDIUM < LARGE
Rank(m) == CASE m = "TINY" -> 0 [] m = "SMALL" -> 1 [] m = "MEDIUM" -> 2 [] m = "LARGE" -> 3

\* C7: classifyMagnitude returns one of the four magnitudes for every delta
\* and flag; a revert is LARGE; otherwise the magnitude does not decrease as
\* |delta| grows, |delta| = 5000 is LARGE and 4999 is MEDIUM, |delta| = 0 is
\* TINY (so that all four bands are met between 0 and 5000), and the sign of
\* the delta does not matter.
C7_Classify ==
    cpc = "done" =>
      /\ cResult \in EditMagnitude
      /\ cIsRevert => cResult = "LARGE"
      /\ cResult = classifyMagnitude(-cSizeDelta, cIsRevert)
      /\ ~cIsRevert =>
           /\ Rank(cResult) <= Rank(classifyMagnitude(Abs(cSizeDelta) + 1, FALSE))
           /\ Rank(classifyMagnitude(Abs(cSizeDelta) + 1, FALSE)) <= Rank(cResult) + 1
           /\ Abs(cSizeDelta) = 0 => cResult = "TINY"
           /\ Abs(cSizeDelta) = 4999 => cResult = "MEDIUM"
           /\ Abs(cSizeDelta) = 5000 => cResult = "LARGE"

\* The boundary value, negative, without revert.
C7_Witness ==
    /\ cpc = "done"
    /\ ~cIsRevert
    /\ cSizeDelta = -5000
    /\ cResult = "LARGE"

\* The record of the first scenario: {length:{old:100,new:150}, bot:false,
\* comment:"typo fix"}, whatever its identity, title and timestamp.
IsTypoFixRecord(r) ==
    /\ r # Null
    /\ r[1].length = Some([old |-> Some(100), new |-> Some(150)])
    /\ r[1].bot = Some(FALSE)
    /\ r[1].reverted = Undefined
    /\ r[1].comment = Some(CommentTypoFix)

\* C8 as stated: the scenario record normalizes to sizeDelta 50, no revert,
\* magnitude SMALL.
C8_TypoFixSmall ==
    (npc = "done" /\ IsTypoFixRecord(raw)) =>
      /\ event # Null
      /\ event[1].sizeDelta = 50
      /\ event[1].isRevert = FALSE
      /\ event[1].magnitude = "SMALL"

\* C8 amended: the scenario record normalizes to sizeDelta 50, no revert,
\* magnitude TINY (SMALL starts at |delta| = 51).
C8_TypoFixTiny ==
    (npc = "done" /\ IsTypoFixRecord(raw)) =>
      /\ event # Null
      /\ event[1].sizeDelta = 50
      /\ event[1].isRevert = FALSE
      /\ event[1].magnitude = "TINY"

C8_Witness ==
    /\ npc = "done"
    /\ IsTypoFixRecord(raw)
    /\ event # Null
    /\ event[1].magnitude = "TINY"

\* The comments among the inputs that contain "revert" in some letter case,
\* or "undo" as written.
MentionsRevert(c) == c \in {Some(CommentReverted), Some(CommentUndo)}

\* C9: a record whose comment contains "revert" (case-insensitively) or
\* "undo", or whose reverted field is true, normalizes to isRevert = TRUE and
\* magnitude LARGE whatever its lengths; {length:{old:500,new:200},
\* comment:"Reverted edits by X"} gives sizeDelta -300.
C9_Revert ==
    (npc = "done" /\ raw # Null) =>
      /\ (MentionsRevert(raw[1].comment) \/ raw[1].reverted = Some(TRUE)) =>
           /\ event # Null
           /\ event[1].isRevert = TRUE
           /\ event[1].magnitude = "LARGE"
      /\ (/\ raw[1].length = Some([old |-> Some(500), new |-> Some(200)])
          /\ raw[1].comment = Some(CommentReverted)) =>
           /\ event # Null
           /\ event[1].sizeDelta = -300

\* The second scenario: no reverted field, a small delta, "Reverted" with a
\* capital letter.
C9_Witness ==
    /\ npc = "done"
    /\ raw # Null
    /\ raw[1].reverted = Undefined
    /\ raw[1].bot = Undefined
    /\ raw[1].length = Some([old |-> Some(500), new |-> Some(200)])
    /\ raw[1].comment = Some(CommentReverted)
    /\ event # Null
    /\ event[1].sizeDelta = -300
    /\ event[1].magnitude = "LARGE"

\* A well-formed raw record: both lengths, the bot flag and the timestamp
\* are present.
WellFormed(r) ==
    /\ r # Null
    /\ r[1].length # Undefined
    /\ r[1].length[1].old # Undefined
    /\ r[1].length[1].new # Undefined
    /\ r[1].bot # Undefined
    /\ r[1].timestamp # Undefined

\* The revert status carried by a raw record: its reverted field, or a
\* comment among the inputs that mentions a revert or an undo.
RevertStatus(o) ==
    \/ o.reverted = Some(TRUE)
    \/ o.comment \in {Some(CommentReverted), Some(CommentUndo), Some(CommentUNDO)}

\* C10 as stated: normalizing a well-formed record reproduces new - old, the
\* bot flag, the revert status, and the source timestamp itself.
C10_RoundTripExact ==
    (npc = "done" /\ WellFormed(raw)) =>
      /\ event # Null
      /\ event[1].sizeDelta = raw[1].length[1].new[1] - raw[1].length[1].old[1]
      /\ event[1].isBot = raw[1].bot[1]
      /\ event[1].isRevert = RevertStatus(raw[1])
      /\ event[1].timestamp = raw[1].timestamp[1]

\* C10 amended: normalizing a well-formed record reproduces new - old, the
\* bot flag and the revert status, and the timestamp is the source timestamp
\* (seconds) times 1000 (milliseconds).
C10_RoundTripMillis ==
    (npc = "done" /\ WellFormed(raw)) =>
      /\ event # Null
      /\ event[1].sizeDelta = raw[1].length[1].new[1] - raw[1].length[1].old[1]
      /\ event[1].isBot = raw[1].bot[1]
      /\ event[1].isRevert = RevertStatus(raw[1])
      /\ event[1].timestamp = raw[1].timestamp[1] * 1000

\* A well-formed record of a bot-free, shrinking, non-revert edit with a
\* non-zero timestamp.
C10_Witness ==
    /\ npc = "done"
    /\ WellFormed(raw)
    /\ raw[1].bot = Some(FALSE)
    /\ raw[1].timestamp = Some(1700000)
    /\ event # Null
    /\ event[1].sizeDelta < 0
    /\ ~event[1].isRevert
    /\ event[1].timestamp = 1700000000

----------------------------------------------------------------------------
(* Properties of the life of an audio engine *)

\* C12: a triggerEdit call on an engine that is not initialized (before init
\* has completed, after a failed init, after dispose) passes no note to any
\* voice, leaves nothing behind for later, and changes nothing of the engine:
\* variationTick, lastTriggerAt, nextTrigger and noteIdx keep their values.
C12_IgnoredWhenNotRunning ==
    [][\A e \in EngineIds :
          (lastCall'.op = "triggerEdit" /\ lastCall'.eng = e
             /\ ~engines[e].initialized)
          => /\ notes' = << >>
             /\ ~lastCall'.accepted
             /\ engines' = engines
             /\ pending' = pending /\ timers' = timers]_vars

\* triggerEdit has been called on an engine that was running and has been
\* disposed
C12_Witness ==
    /\ lastCall.op = "triggerEdit"
    /\ ~engines[lastCall.eng].initialized
    /\ engines[lastCall.eng].disposed /\ engines[lastCall.eng].started

\* C13: whatever number of init calls has been made on an engine that was
\* never disposed, one after the other or overlapping at the await of
\* Tone.start(), once one of them has completed the engine is initialized,
\* the body of startDrone has run exactly once and the engine has exactly one
\* timer, which is running.  No engine starts its drone or sets a timer twice.
C13_InitIdempotent ==
    \A e \in EngineIds :
       /\ engines[e].droneAttacks <= 1
       /\ Len(timers[e]) <= 1
       /\ (engines[e].started /\ ~engines[e].disposed)
          => /\ engines[e].initialized
             /\ engines[e].droneStarted
             /\ engines[e].droneAttacks = 1
             /\ timers[e] = << TRUE >>
             /\ engines[e].droneInterval = 1

\* An init call that overlapped another has completed on the running engine
C13_Witness ==
    /\ lastCall.op = "resolve" /\ ~lastCall.accepted
    /\ engines[lastCall.eng].started /\ ~engines[lastCall.eng].disposed

\* C14: when Tone.start() has rejected for an engine and has never resolved
\* for it, the engine is not initialized, its drone is not started, it has no
\* timer, its scheduler variables are those of a new engine whatever triggers
\* it has received, and audioReady is false.
C14_FailedStart ==
    \A e \in EngineIds :
       (engines[e].failed /\ ~engines[e].started)
       => /\ ~engines[e].initialized
          /\ ~engines[e].droneStarted
          /\ engines[e].droneInterval = 0 /\ timers[e] = << >>
          /\ engines[e].variationTick = 0 /\ engines[e].noteIdx = 0
          /\ engines[e].lastTriggerAt = 0 /\ engines[e].nextTrigger = 0
          /\ ~audioReady

\* triggerEdit has been called on an engine whose init was rejected
C14_Witness ==
    /\ lastCall.op = "triggerEdit"
    /\ engines[lastCall.eng].failed /\ ~engines[lastCall.eng].started
    /\ ~engines[lastCall.eng].disposed
    /\ pending = << >>

\* C15: an engine on which dispose() has been called is not initialized and
\* none of its timers is running.
C15_DisposedStaysStopped ==
    \A e \in EngineIds :
       engines[e].disposed
       => /\ ~engines[e].initialized
          /\ \A k \in 1..Len(timers[e]) : ~timers[e][k]

----------------------------------------------------------------------------
(* Properties of the registry of engines *)

\* C16: a dispose() that returns leaves no engine registered; the engine
\* that getAudioEngine() then creates is registered and has the state of a
\* new engine, not initialized; and when an init call completes on an engine
\* that was never disposed, that engine is initialized, its drone has been
\* started once and its one timer runs.
C16_FreshCycle ==
    [][/\ lastCall'.op = "dispose" => engine' = 0
       /\ Len(engines') > Len(engines)
          => /\ engine = 0
             /\ engine' = Len(engines')
             /\ engines'[engine'] = NewEngine
             /\ timers'[engine'] = << >>
       /\ \A e \in EngineIds :
            (lastCall'.op = "resolve" /\ lastCall'.eng = e /\ ~engines[e].disposed)
            => /\ engines'[e].initialized
               /\ engines'[e].droneAttacks = 1
               /\ timers'[e] = << TRUE >>]_vars

\* After the dispose of the first engine a second one has been created and
\* initialized
C16_Witness ==
    /\ Len(engines) >= 2
    /\ engines[1].disposed
    /\ engine = 2
    /\ lastCall = Call("resolve", 2, TRUE)
    /\ engines[2].initialized /\ ~engines[2].disposed

\* C17: every engine that has not been disposed is the registered one, the
\* one getAudioEngine() returns: a dispose() of an engine disposed before
\* does not unregister it, and no second engine is created beside it.
C17_SingleLiveEngine ==
    \A e \in EngineIds : ~engines[e].disposed => engine = e

----------------------------------------------------------------------------
(* Properties of the trigger scheduler *)

\* The minimum gap between accepted triggers, by the incoming event
GapOf(ev) ==
    CASE ev.isRevert -> 120
      [] ev.magnitude = "LARGE" -> 120
      [] ev.magnitude = "MEDIUM" -> 90
      [] OTHER -> 60

\* C18: a triggerEdit call on an initialized engine at a time less than the
\* minimum gap of the incoming event after lastTriggerAt (120 ms for a revert
\* or a LARGE event, 90 ms for MEDIUM, 60 ms for TINY and SMALL) passes no
\* note to any voice and leaves the effect parameters, lastTriggerAt,
\* nextTrigger and noteIdx as they were.
C18_MinGapDrop ==
    [][\A e \in EngineIds, ev \in AudioEvents, d \in Draws :
          (lastCall'.op = "triggerEdit" /\ engines[e].initialized
             /\ toneNow - engines[e].lastTriggerAt < GapOf(ev)
             /\ triggerEdit(e, ev, d))
          => /\ notes' = << >>
             /\ ~lastCall'.accepted
             /\ engines'[e].fx = engines[e].fx
             /\ engines'[e].lastTriggerAt = engines[e].lastTriggerAt
             /\ engines'[e].nextTrigger = engines[e].nextTrigger
             /\ engines'[e].noteIdx = engines[e].noteIdx
             /\ engines'[e].voiceLast = engines[e].voiceLast]_vars

\* A trigger has been dropped 60 ms or more after the last accepted one
C18_Witness ==
    /\ lastCall.op = "triggerEdit" /\ ~lastCall.accepted
    /\ engines[lastCall.eng].initialized
    /\ engines[lastCall.eng].noteIdx >= 1
    /\ toneNow - engines[lastCall.eng].lastTriggerAt >= 60

\* C19: when a trigger is accepted on an engine that has accepted one before,
\* its jitteredTime is strictly greater than the jitteredTime of the trigger
\* accepted before it, whatever the jitter of either.
C19_StartTimesIncrease ==
    [][\A e \in EngineIds :
          (lastCall'.op = "triggerEdit" /\ lastCall'.eng = e
             /\ lastCall'.accepted /\ engines[e].noteIdx >= 1)
          => /\ engines'[e].lastStart > engines[e].lastStart
             /\ notes'[1].time = engines'[e].lastStart]_vars

\* Two triggers have been accepted, the first with the latest jitter and the
\* second with the earliest, one minimum gap apart
C19_Witness ==
    /\ lastCall.op = "triggerEdit" /\ lastCall.accepted
    /\ engines[lastCall.eng].noteIdx = 2
    /\ engines[lastCall.eng].lastStart = toneNow + 5 + Jitter(0)
    /\ \E t \in 0..toneNow :
          /\ toneNow - t < 90
          /\ \E v \in Voices : engines[lastCall.eng].voiceLast[v] = t + 5 + Jitter(2)

\* C20: every time a triggerEdit call passes to a voice is strictly greater
\* than the time of the call plus 5 ms, and strictly greater than the time
\* passed before it to the same voice in the same call.
C20_AfterLookahead ==
    /\ \A k \in 1..Len(notes) : notes[k].time > toneNow + 5
    /\ \A j, k \in 1..Len(notes) :
          (j < k /\ notes[j].voice = notes[k].voice) => notes[j].time < notes[k].time

----------------------------------------------------------------------------
(* Properties of the event stream *)

\* A canonical event: a record with the fields of WikiEditEvent
IsCanonicalEvent(v) ==
    /\ DOMAIN v = {"id", "title", "sizeDelta", "isBot", "isRevert",
                   "timestamp", "magnitude"}
    /\ v.magnitude \in {"TINY", "SMALL", "MEDIUM", "LARGE"}

\* C11: every value passed to enqueue is a canonical event, carrying a
\* magnitude; no other message of the proxy reaches enqueue.
C11_OnlyCanonical ==
    \A k \in 1..Len(enqueued) : IsCanonicalEvent(enqueued[k])

----------------------------------------------------------------------------
(* Further properties of the trigger scheduler *)

\* C21: nextTrigger, the one cursor of an engine, never decreases; an
\* accepted trigger sets it to max(now + 5 ms, previous cursor + 2 ms), which
\* is strictly greater than the previous cursor and not less than now + 5 ms.
C21_CursorMonotone ==
    [][\A e \in EngineIds :
          /\ engines'[e].nextTrigger >= engines[e].nextTrigger
          /\ (lastCall'.op = "triggerEdit" /\ lastCall'.eng = e /\ lastCall'.accepted)
             => /\ engines'[e].nextTrigger
                     = (IF toneNow + 5 >= engines[e].nextTrigger + 2
                        THEN toneNow + 5 ELSE engines[e].nextTrigger + 2)
                /\ engines'[e].nextTrigger > engines[e].nextTrigger
                /\ engines'[e].nextTrigger >= toneNow + 5]_vars

\* A second trigger has been accepted and has moved the cursor
C21_Witness ==
    /\ lastCall.op = "triggerEdit" /\ lastCall.accepted
    /\ engines[lastCall.eng].noteIdx >= 2
    /\ engines[lastCall.eng].nextTrigger = toneNow + 5

\* The last accepted trigger of E was for a LARGE event or a revert that is
\* not a bot edit (only these pass jitteredTime to the orchestra or to kuro),
\* respectively for a MEDIUM event (choir)
LastWasLong(E) ==
    /\ E.noteIdx >= 1
    /\ E.voiceLast["orchestra"] = E.lastStart \/ E.voiceLast["kuro"] = E.lastStart
LastWasMedium(E) ==
    E.noteIdx >= 1 /\ E.voiceLast["choir"] = E.lastStart

\* C27: a trigger is accepted no sooner than 120 ms after an accepted trigger
\* for a revert or a LARGE event, and no sooner than 90 ms after an accepted
\* trigger for a MEDIUM event.
C27_WindowOfPrevious ==
    [][\A e \in EngineIds :
          (lastCall'.op = "triggerEdit" /\ lastCall'.eng = e /\ lastCall'.accepted)
          => /\ LastWasLong(engines[e])
                  => toneNow - engines[e].lastTriggerAt >= 120
             /\ LastWasMedium(engines[e])
                  => toneNow - engines[e].lastTriggerAt >= 90]_vars

\* C28: the notes of an accepted trigger for an event with isRevert = true
\* are one note, on the voice kuro, whatever isBot and magnitude are.
C28_RevertVoice ==
    [][\A e \in EngineIds, ev \in AudioEvents, d \in Draws :
          (lastCall'.op = "triggerEdit" /\ lastCall'.accepted /\ ev.isRevert
             /\ triggerEdit(e, ev, d))
          => /\ Len(notes') = 1
             /\ notes'[1].voice = "kuro"]_vars

----------------------------------------------------------------------------
(* Properties of the particle pool (SpecParticles) *)

\* The inactive slots of a pool
FreeSlots(P) == {i \in 1..Len(P) : ~P[i].active}

\* C22: spawn never changes the number of slots of the pool and always
\* completes; when at least one slot is inactive it activates exactly one
\* inactive slot, the one of lowest index, and leaves every active particle
\* (indeed every other slot) as it was, so that the number of free slots
\* decreases by exactly one.
C22_SpawnTakesLowestFree ==
    [][lastFrame'.op = "spawn" =>
         /\ Len(particles') = Len(particles)
         /\ FreeSlots(particles) # {} =>
              \E t \in FreeSlots(particles) :
                 /\ \A j \in FreeSlots(particles) : t <= j
                 /\ particles'[t].active
                 /\ \A j \in 1..Len(particles) : j # t => particles'[j] = particles[j]
                 /\ Cardinality(FreeSlots(particles')) =
                        Cardinality(FreeSlots(particles)) - 1]_vars

\* A spawn has just taken slot 1 while slot 2 held an active particle born
\* earlier, which has aged since and is still there.
C22_Witness ==
    /\ lastFrame.op = "spawn" /\ ~lastFrame.evicted /\ lastFrame.target = 1
    /\ Len(particles) >= 2
    /\ particles[1].active /\ particles[2].active
    /\ particles[2].bornAt < particles[1].bornAt
    /\ particles[2].life < particles[2].maxLife

\* The slots of least bornAt
Eldest(P) == {i \in 1..Len(P) : \A j \in 1..Len(P) : P[i].bornAt <= P[j].bornAt}

\* C25: when every slot is active, spawn overwrites exactly one slot, the
\* slot of lowest index among those whose bornAt is minimal; all other slots
\* are untouched and the number of active slots stays the capacity of the
\* pool.
C25_EvictsOldest ==
    [][(lastFrame'.op = "spawn" /\ Len(particles) > 0 /\ FreeSlots(particles) = {}) =>
         \E t \in Eldest(particles) :
            /\ \A j \in Eldest(particles) : t <= j
            /\ lastFrame'.target = t
            /\ particles'[t].bornAt = perfNow
            /\ particles'[t].life = particles'[t].maxLife
            /\ \A j \in 1..Len(particles) : j # t => particles'[j] = particles[j]
            /\ FreeSlots(particles') = {}]_vars

\* A spawn has just evicted slot 1 of a full pool, and slot 2 is now the
\* older one.
C25_Witness ==
    /\ lastFrame.op = "spawn" /\ lastFrame.evicted /\ lastFrame.target = 1
    /\ Len(particles) >= 2
    /\ \A i \in 1..Len(particles) : particles[i].active
    /\ particles[2].bornAt < particles[1].bornAt

\* C23: a frame decreases the life of every active particle by exactly the
\* elapsed delta; a particle whose life becomes <= 0, or whose squared
\* distance from the origin exceeds 44 * 44 when the frame tests it, is
\* deactivated in that frame and nothing of it is written to the buffers;
\* so after a frame no active particle has a life <= 0.
C23_NoSpentParticle ==
    [][lastFrame'.op = "particles" =>
         \A i \in 1..Len(particles) :
            /\ particles[i].active =>
                 /\ particles'[i].life = particles[i].life - lastFrame'.delta
                 /\ (particles'[i].life <= 0 \/ particles[i].dist * particles[i].dist > 44 * 44)
                      => ~particles'[i].active /\ buffers'[i] = ZeroEntry
            /\ particles'[i].active => particles'[i].life > 0]_vars

\* A frame has just deactivated a particle whose life reached exactly 0,
\* while another particle lives on.
C23_Witness ==
    /\ lastFrame.op = "particles"
    /\ \E i, j \in 1..Len(particles) :
          /\ ~particles[i].active /\ particles[i].life = 0 /\ particles[i].bornAt > 0
          /\ particles[j].active /\ particles[j].life < particles[j].maxLife

\* C29: after a frame the position, size and colour entries of every
\* inactive slot are zero, those of a slot deactivated in that frame
\* included.
C29_InactiveIsZero ==
    [][lastFrame'.op = "particles" =>
         \A i \in 1..Len(particles') :
            ~particles'[i].active => buffers'[i] = ZeroEntry]_vars

\* A frame has just deactivated a particle that was drawn before, for
\* having gone too far, and its entries are zero.
C29_Witness ==
    /\ lastFrame.op = "particles"
    /\ \E i \in 1..Len(particles) :
          /\ ~particles[i].active /\ particles[i].life > 0
          /\ particles[i].dist * particles[i].dist > 44 * 44
          /\ buffers[i] = ZeroEntry

----------------------------------------------------------------------------
(* Properties of the render loop (SpecFrame, SpecFrameFair) *)

C30_LevelsEveryFrame ==
    [][\A lv \in FrameLevels :
         ((\E delta \in LongDeltas : sceneFrame(lv, DrawMid, delta)) /\ UNCHANGED <<clsVars, normVars, pipeVars, clientVars, moteVars>>) =>
         /\ audio' = [amplitude |-> lv.amplitude, lowFreq |-> lv.lowFreq,
                      highFreq |-> lv.highFreq]
         /\ history' = history
         /\ totalCount' = totalCount
         /\ lastFrame'.taken = 0 => queue' = queue]_vars

\* A frame that found the queue empty has just written new levels over
\* different ones, with events in the history.
C30_Witness ==
    /\ lastFrame.op = "scene" /\ lastFrame.taken = 0
    /\ audio.amplitude = 1 /\ audio.lowFreq = 0 /\ audio.highFreq = 1
    /\ totalCount > 0 /\ Len(history) > 0

\* No event is queued and no particle is active
Idle ==
    /\ queue = << >>
    /\ \A i \in 1..Len(particles) : ~particles[i].active

\* C24: once events stop arriving, under continuing frames the queue
\* empties, by min(maxEvents, length) events per frame of InnerScene, and
\* all particles expire; from then on the system stays idle, and in the
\* idle state a frame of either callback dequeues nothing, spawns nothing,
\* schedules no note and leaves queue, history, totalCount, the engine and
\* the pool unchanged.
C24_SettlesIdle ==
    /\ <>[]Idle
    /\ [][SceneFrameStep =>
            Len(queue') = Len(queue) - Min(IF isLowTier THEN 1 ELSE 2, Len(queue))]_vars
    /\ [][(Idle /\ (SceneFrameStep \/ ParticleFrameStep)) =>
            /\ lastFrame'.taken = 0 /\ lastFrame'.target = 0
            /\ SceneFrameStep => notes' = << >> /\ ~lastCall'.accepted
            /\ UNCHANGED <<queue, history, totalCount, particles, buffers, engines>>
            /\ Idle']_vars

\* The idle state after activity: events were dequeued and spawned, their
\* particles have expired, and a frame has just found the queue empty.
C24_Witness ==
    /\ Idle
    /\ lastFrame.op = "scene" /\ lastFrame.taken = 0
    /\ Len(returned) > 0
    /\ \E i \in 1..Len(particles) : particles[i].bornAt > 0

----------------------------------------------------------------------------
(* Further properties of the store (Spec) *)

\* C36: the queue is always a suffix of the history: the queued events are
\* exactly the last Len(queue) elements of history, in the same order.
C36_QueueSuffixOfHistory ==
    /\ Len(queue) <= Len(history)
    /\ queue = SubSeq(history, Len(history) - Len(queue) + 1, Len(history))

\* Events are queued after a dequeue, and the history has dropped its
\* oldest event.
C36_Witness ==
    /\ Len(queue) >= 1 /\ Len(returned) >= 1
    /\ Len(history) > Len(queue)
    /\ totalCount > Len(history)

----------------------------------------------------------------------------
(* Further properties of the particle pool (SpecParticles) *)

\* C37: a slot holds an event exactly while it is active: after every spawn
\* and every frame, active is true if and only if event is not null, so a
\* hover or click lookup returns an event only for an active slot, and then
\* the event the slot was last spawned with.
C37_EventIffActive ==
    \A i \in 1..Len(particles) :
       /\ particles[i].active <=> particles[i].event # Null
       /\ getInfoFromIndex(particles, i) # Null =>
             particles[i].active /\ getInfoFromIndex(particles, i) = particles[i].event
       /\ ~particles[i].active => getInfoFromIndex(particles, i) = Null

\* A frame has just deactivated a slot that was spawned into, and another
\* slot is active.
C37_Witness ==
    /\ lastFrame.op = "particles"
    /\ \E i, j \in 1..Len(particles) :
          /\ ~particles[i].active /\ particles[i].bornAt > 0
          /\ getInfoFromIndex(particles, i) = Null
          /\ particles[j].active /\ getInfoFromIndex(particles, j) # Null

----------------------------------------------------------------------------
(* Further properties of the trigger scheduler (SpecSched) *)

\* C38: a trigger dropped by the minimum-gap rule leaves the whole state of
\* the scheduler unchanged, the variation counter included.
C38_DropLeavesState ==
    [][\A e \in EngineIds :
         (/\ lastCall'.op = "triggerEdit" /\ lastCall'.eng = e
          /\ ~lastCall'.accepted /\ engines[e].initialized)
         => engines'[e] = engines[e]]_vars

----------------------------------------------------------------------------
(* Further properties of the event stream (SpecPipe) *)

\* The line is a data line holding a record of type "edit" that
\* normalizeEvent accepts at time tnow
IsForwardable(l, tnow) ==
    /\ l.kind = "json" /\ l.raw # Null /\ l.type = Some("edit")
    /\ normalizeEvent(l.raw, tnow, "0.25") # Null

\* C35: the proxy forwards an upstream line only if it is a record of type
\* "edit" whose normalization is not null and at least 50 ms have passed
\* since the last event it forwarded; such a line is then appended to the
\* stream at once, after the events forwarded before it, and any other line,
\* an edit that comes earlier than 50 ms included, is dropped: nothing is
\* sent for it then or later and the time of the last forwarding stays.
C35_ThrottleDrops ==
    [][\A l \in UpstreamLines :
         ReadLine(l) =>
            IF IsForwardable(l, pnow) /\ pnow - lastSentTime >= 50
            THEN /\ wire' = Append(wire, JSONstringify(normalizeEvent(l.raw, pnow, "0.25")[1]))
                 /\ lastSentTime' = pnow
            ELSE /\ wire' = wire
                 /\ lastSentTime' = lastSentTime]_vars

\* Two events are on the stream, the second forwarded at least 50 ms after
\* the first, and an edit read now would come too early.
C35_Witness ==
    /\ ppc = "read"
    /\ Len(wire) = 2 /\ IsCanonicalEvent(JSONparse(wire[1]))
    /\ IsCanonicalEvent(JSONparse(wire[2]))
    /\ lastSentTime > 0 /\ pnow > lastSentTime /\ pnow - lastSentTime < 50
----------------------------------------------------------------------------
(* Properties of the frame callback of InnerScene *)

LevelsOf(a) ==
    [amplitude |-> a.amplitude, lowFreq |-> a.lowFreq, highFreq |-> a.highFreq]

\* C31: after every frame of InnerScene the levels in the props of the orb,
\* the glow and the particle system are the levels read in that frame or in
\* the frame before, and their displacement and revert flash are the decayed
\* values of the refs after that frame or before it, also when the frame
\* dequeued no event.
C31_PropsEveryFrame ==
    [][SceneFrameStep =>
         /\ LevelsOf(visualState') \in {LevelsOf(audio'), LevelsOf(audio)}
         /\ visualState'.displace \in {displaceRef', displaceRef}
         /\ visualState'.isRevert \in {isRevertRef', isRevertRef}]_vars

\* The calls that hand the events of T, in order, to triggerEdit and then
\* to spawn
CallsOf(T) ==
    [i \in 1..(2 * Len(T)) |->
        [fn |-> IF i % 2 = 1 THEN "triggerEdit" ELSE "spawn",
         ev |-> T[(i + 1) \div 2]]]

Range(f) == {f[i] : i \in DOMAIN f}

\* Events of which every copy was evicted from the queue
EvictedEvents == (Range(enqueued) \ Range(returned)) \ Range(queue)

\* C33: the calls of triggerEdit and spawn made so far are, in order, one
\* call of triggerEdit followed by one call of spawn for each event that
\* dequeue has returned, made in the frame that dequeued it; an event
\* evicted from the queue is passed to neither; a frame on an engine that is
\* not running schedules no note and leaves the engine as it is but spawns
\* the particle of each event it dequeues, and a later frame that dequeues
\* nothing schedules nothing.
C33_EachEventOnce ==
    /\ [](fed = CallsOf(returned))
    /\ [](\A c \in Range(fed) : c.ev \notin EvictedEvents)
    /\ [][SceneFrameStep =>
            /\ \E n \in 0..2 :
                  /\ n = lastFrame'.taken
                  /\ Len(returned') = Len(returned) + n
                  /\ fed' = fed \o CallsOf(SubSeq(returned', Len(returned) + 1,
                                                   Len(returned')))
            /\ lastFrame'.taken = 0 => notes' = << >> /\ engines' = engines
            /\ ~engines[1].initialized =>
                  /\ notes' = << >> /\ engines' = engines
                  /\ (particles # << >> /\ lastFrame'.taken > 0) =>
                        \E i \in 1..Len(particles') :
                           /\ particles'[i].active
                           /\ particles'[i].event = Some(returned'[Len(returned')])]_vars

\* A frame on an engine that is not running has just dequeued two events
\* and spawned their particles, after an event of another content was
\* evicted from the queue.
C33_Witness ==
    /\ lastFrame.op = "scene" /\ lastFrame.taken = 2
    /\ ~engines[1].initialized
    /\ EvictedEvents # {}
    /\ \E i \in 1..Len(particles) : particles[i].active
    /\ Len(fed) >= 4
----------------------------------------------------------------------------
(* Properties of the SSE effect *)

OpenSources == {k \in 1..Len(sources) : sources[k] = "open"}
LiveSources == {k \in 1..Len(sources) : sources[k] # "closed"}
PendingRetries == {t \in 1..Len(retries) : retries[t].state = "pending"}

\* C40: at most one EventSource is open at any time, and none but the
\* current one is not closed; connected is true only while the current
\* EventSource is open; an error closes the source, sets connected to false
\* and sets exactly one timer, and a timer creates one EventSource, 3 s or
\* more after the error that set it; once the cleanup has run, every source
\* is closed, no timer is pending, connected is false and stays so, no
\* source is created and nothing is enqueued.
C40_OneConnection ==
    /\ [](Cardinality(OpenSources) <= 1 /\ LiveSources \subseteq {es})
    /\ [](connected => es # 0 /\ sources[es] = "open")
    /\ [](Cardinality(PendingRetries) <= 1)
    /\ [](effect = "cleaned" =>
            /\ LiveSources = {} /\ PendingRetries = {} /\ ~connected)
    /\ [][\A k \in 1..Len(sources) :
            (esOnerror(k) /\ UNCHANGED apart) =>
               /\ sources'[k] = "closed" /\ ~connected'
               /\ Len(retries') = Len(retries) + 1
               /\ PendingRetries' = {Len(retries')}
               /\ retries'[Len(retries')].setAt = cnow]_vars
    /\ [][(effect # "none" /\ Len(sources') # Len(sources)) =>
            /\ Len(sources') = Len(sources) + 1
            /\ \E t \in PendingRetries :
                  /\ retries'[t].state = "fired"
                  /\ cnow - retries[t].setAt >= 3000]_vars
    /\ [][effect = "cleaned" =>
            /\ enqueued' = enqueued /\ queue' = queue /\ history' = history
            /\ sources' = sources /\ retries' = retries]_vars

\* The cleanup has just run on a connection that was open again after an
\* error and a reconnect and had delivered an event.
C40_Witness ==
    /\ effect = "cleaned" /\ lastOp = "flag"
    /\ Len(sources) >= 2 /\ Len(enqueued) >= 1
    /\ \E t \in 1..Len(retries) : retries[t].state = "fired"
----------------------------------------------------------------------------
(* Properties of spawn *)

\* The fields of an event that spawn reads
Content(ev) ==
    [id |-> ev.id, title |-> ev.title, timestamp |-> ev.timestamp,
     sizeDelta |-> ev.sizeDelta, magnitude |-> ev.magnitude,
     isRevert |-> ev.isRevert, isBot |-> ev.isBot]

\* The particles that a spawn has written and no frame has aged or moved
Fresh == {i \in 1..Len(particles) :
            particles[i].active /\ particles[i].life = particles[i].maxLife}

----------------------------------------------------------------------------
(* Properties of the pool with ambient motes *)

MoteSlots == {i \in 1..Len(mparticles) : i <= MaxMotes}

\* C32: every one of the first moteCount slots of the pool is an active
\* mote of infinite life in every reachable state; a frame leaves these
\* slots as they are, whatever it expires or culls; a spawn leaves them as
\* they are and activates min(count, free slots) slots behind them, none
\* when the pool is saturated.
C32_MotesExempt ==
    /\ [](\A i \in MoteSlots :
            /\ mparticles[i].type = "mote" /\ mparticles[i].active
            /\ mparticles[i].life = Infinity)
    /\ [](\A i \in 1..Len(mparticles) : mparticles[i].type = "mote" => i <= MaxMotes)
    /\ [][mlast'.op \in {"frame", "spawn"} =>
            \A i \in MoteSlots : mparticles'[i] = mparticles[i]]_vars
    /\ [][mlast'.op = "spawn" =>
            LET free == {i \in 1..Len(mparticles) : ~mparticles[i].active}
                left == {i \in 1..Len(mparticles) : ~mparticles'[i].active}
            IN  /\ left \subseteq free
                /\ \A i \in 1..Len(mparticles) :
                      i \notin free => mparticles'[i] = mparticles[i]
                /\ free = {} => mparticles' = mparticles]_vars

\* A spawn has just found the pool saturated: every slot is active, the
\* particles behind the motes were spawned earlier and have aged since.
C32_Witness ==
    /\ mlast.op = "spawn" /\ mlast.spawned = 0
    /\ mparticles # << >>
    /\ \A i \in 1..Len(mparticles) : mparticles[i].active
    /\ \E i \in 1..Len(mparticles) : mparticles[i].life < mparticles[i].maxLife
----------------------------------------------------------------------------
(* Release of the particles *)

ActiveAt(i) == IF i <= Len(particles) THEN particles[i].active ELSE FALSE

====
